---- MODULE Spec2Model ----
(***************************************************************************)
(* Certification blockchain node: the chain manager (node/blockchain), its *)
(* proof of work (node/consensus), the store (node/storage) and the        *)
(* certification submission handler (node/network/server.go).              *)
(*                                                                         *)
(* Strings are kept as strings.  SHA-256 is an injective constructor       *)
(* "sha256(...)" over the exact byte string the code feeds it, so two       *)
(* inputs that the code concatenates to the same bytes share a hash.       *)
(* A 256-bit digest is never compared as a number directly: for a digest d *)
(* and 0 <= bits <= 256, d < 2^(256-bits) holds exactly when d has at      *)
(* least `bits` leading zero bits, so the model carries the number of      *)
(* leading zero bits of a header hash (LeadingZeroBits).                   *)
(*                                                                         *)
(* main() starts its services only when NewBlockchain succeeds.  The       *)
(* operations of Blockchain are modelled as the package offers them, on    *)
(* the object the struct literal of NewBlockchain builds (empty block      *)
(* list): AddBlock is the operation NewBlockchain itself applies to that   *)
(* empty chain.  A process start (StartNode) wipes the memory, runs        *)
(* NewBlockchain over the persisted store and exits when it fails.         *)
(***************************************************************************)
EXTENDS Integers, Sequences, FiniteSets, TLC

VARIABLES
    blocks,         \* Blockchain.blocks
    currentHeight,  \* Blockchain.currentHeight (uint64)
    miningPool,     \* Blockchain.miningPool
    difficulty,     \* Blockchain.difficulty
    powTargetBits,  \* ProofOfWork.targetBits / target of Blockchain.pow
    db,             \* the key-value store: [blocks, certs, meta], key -> value
    now,            \* the node's clock, Unix seconds
    proc,           \* "running", or "exited" once main has called Fatal
    ioFaults,       \* number of store writes that have failed so far
    last,           \* the most recent completed operation, its input and result
    miner,          \* the StartMining goroutine: where it is, the block it mines
    ctxDone,        \* whether main has cancelled the root context
    peers,          \* Server.peers: address -> Peer
    knownPeers,     \* Discovery.knownPeers
    cascades,       \* the calls of ExecuteCascadeDiscovery in progress
    locks,          \* who holds Blockchain.mu (for writing) and Blockchain.miningMu
    calls           \* the calls of Blockchain methods in progress, per goroutine

\* The state of the tasks main starts and stops.
taskVars == <<miner, ctxDone>>

\* The state of the peer-to-peer services.
netVars == <<peers, knownPeers, cascades>>

\* The locks of Blockchain and the calls that take them step by step.
lockVars == <<locks, calls>>

vars == <<blocks, currentHeight, miningPool, difficulty, powTargetBits, db,
          now, proc, ioFaults, last, taskVars, netVars, lockVars>>

-----------------------------------------------------------------------------
(* Bounds of the model *)

\* Once the chain holds MaxBlocks, AddBlock is offered only blocks it turns
\* down.
MaxBlocks == 2
\* The clock advances at most MaxTicks seconds.
MaxTicks == 2
\* At most MaxFaults writes to the store fail.
MaxFaults == 1

(* Program constants *)

InitialDifficulty == 16
MaxTxPerBlock == 1000
BlockVersion == 1
Day == 24 * 3600
FiveMinutes == 5 * 60

\* The uint64 value 2^64 - 1, written as its residue -1 modulo 2^64.
MaxUint64 == 0 - 1

\* uint64 decrement (bc.currentHeight--): 0 wraps to 2^64 - 1.
DecUint64(h) == IF h = 0 THEN MaxUint64 ELSE h - 1

\* uint64 increment (lastBlock.Header.Height+1): 2^64 - 1 wraps to 0.
IncUint64(h) == IF h = MaxUint64 THEN 0 ELSE h + 1

\* The order of uint64 values on the residues the model uses.
LeqUint64(a, b) ==
    IF a = MaxUint64 THEN b = MaxUint64 ELSE b = MaxUint64 \/ a <= b

\* The instant the model's clock starts at.
T0 == 2 * Day

\* time.Time{}: the zero instant of an absent JSON datetime (year 1), kept as
\* an instant that lies before every other instant of the model.
ZeroTime == 0 - 10000 * Day

Sha256(bytes) == "sha256(" \o bytes \o ")"

-----------------------------------------------------------------------------
(* Transactions: node/blockchain/transaction.go *)

\* Transaction.Hash: SHA-256 over pk, name, surname, inquiry id written back
\* to back, then the Unix seconds as 8 bytes.
TxHash(tx) ==
    Sha256(tx.public_key \o tx.name \o tx.surname \o tx.inquiry_id
           \o "#" \o ToString(tx.datetime))

NewTransaction(publicKey, name, surname, inquiryID, datetime, signature) ==
    LET tx == [id |-> "", public_key |-> publicKey, name |-> name,
               surname |-> surname, inquiry_id |-> inquiryID,
               datetime |-> datetime, signature |-> signature,
               status |-> "pending"]
    IN  [tx EXCEPT !.id = TxHash(tx)]

\* Transaction.Validate with an age test that turns down 24 hours itself.
TxValidateBelowDay(tx, t) ==
    IF tx.public_key = "" THEN "public key is required"
    ELSE IF tx.name = "" \/ tx.surname = "" THEN "name and surname are required"
    ELSE IF tx.inquiry_id = "" THEN "inquiry ID is required"
    ELSE IF tx.signature = "" THEN "signature is required"
    ELSE IF t - tx.datetime >= Day THEN "transaction datetime is too old"
    ELSE IF tx.datetime > t + FiveMinutes THEN "transaction datetime is in the future"
    ELSE ""

\* Transaction.Validate at clock t: "" when valid, else the error.  time.Since
\* and time.Now are one reading t of the clock.
TxValidate(tx, t) ==
    IF tx.public_key = "" THEN "public key is required"
    ELSE IF tx.name = "" \/ tx.surname = "" THEN "name and surname are required"
    ELSE IF tx.inquiry_id = "" THEN "inquiry ID is required"
    ELSE IF tx.signature = "" THEN "signature is required"
    ELSE IF t - tx.datetime > Day THEN "transaction datetime is too old"
    ELSE IF tx.datetime > t + FiveMinutes THEN "transaction datetime is in the future"
    ELSE ""

GetSignableMessage(tx) ==
    tx.public_key \o "|" \o tx.name \o "|" \o tx.surname \o "|"
    \o tx.inquiry_id \o "|" \o ToString(tx.datetime)

\* The base64 PKCS#1 v1.5 signature the holder of publicKey's private key
\* produces over message.
RSASign(publicKey, message) == "rsa(" \o publicKey \o "," \o message \o ")"

\* The strings that parse as PEM public keys.
PEMKeys == {"pkA", "pkB", "pkC"}

\* crypto.VerifyRSASignature: "" when the signature verifies.
VerifyRSASignature(publicKeyPEM, message, signatureBase64) ==
    IF publicKeyPEM \notin PEMKeys THEN "failed to parse public key"
    ELSE IF signatureBase64 # RSASign(publicKeyPEM, message)
         THEN "signature verification failed"
    ELSE ""

VerifySignature(tx) ==
    VerifyRSASignature(tx.public_key, GetSignableMessage(tx), tx.signature)

\* The byte stream of Serialize, as the sequence of items written: a
\* big-endian uint32 <<"u32", n>>, the n > 0 bytes of a string
\* <<"bytes", s>>, a big-endian int64 <<"i64", t>>.  A string of length 0
\* adds no bytes after its length.
WriteString(buf, str) ==
    buf \o <<(<<"u32", Len(str)>>)>>
        \o (IF Len(str) = 0 THEN <<>> ELSE <<(<<"bytes", str>>)>>)

\* Transaction.Serialize: its writes do not fail on a bytes.Buffer.
Serialize(tx) ==
    LET b1 == WriteString(<<>>, tx.id)
        b2 == WriteString(b1, tx.public_key)
        b3 == WriteString(b2, tx.name)
        b4 == WriteString(b3, tx.surname)
        b5 == WriteString(b4, tx.inquiry_id)
        b6 == b5 \o <<(<<"i64", tx.datetime>>)>>
        b7 == WriteString(b6, tx.signature)
    IN  WriteString(b7, tx.status)

\* readString of DeserializeTransaction with the reader before item pos of
\* data, a stream Serialize wrote.  binary.Read fails at the end of the
\* data; bytes.Reader.Read answers io.EOF whenever the reader is at the end
\* of the data, also for a slice of length 0, and otherwise fills the slice.
ReadString(data, pos) ==
    IF pos > Len(data) THEN [err |-> "EOF", str |-> "", pos |-> pos]
    ELSE IF pos + 1 > Len(data) THEN [err |-> "EOF", str |-> "", pos |-> pos + 1]
    ELSE IF data[pos][2] = 0 THEN [err |-> "", str |-> "", pos |-> pos + 1]
    ELSE [err |-> "", str |-> data[pos + 1][2], pos |-> pos + 2]

\* DeserializeTransaction(data): [err, tx]; time.Unix(timestamp, 0) is the
\* instant of the seconds read.
DeserializeTransaction(data) ==
    LET none == [err |-> "EOF", tx |-> <<>>]
        r1 == ReadString(data, 1)
        r2 == ReadString(data, r1.pos)
        r3 == ReadString(data, r2.pos)
        r4 == ReadString(data, r3.pos)
        r5 == ReadString(data, r4.pos)
        r6 == ReadString(data, r5.pos + 1)
        r7 == ReadString(data, r6.pos)
    IN  IF r1.err # "" THEN none
        ELSE IF r2.err # "" THEN none
        ELSE IF r3.err # "" THEN none
        ELSE IF r4.err # "" THEN none
        ELSE IF r5.err # "" THEN none
        ELSE IF r5.pos > Len(data) THEN none
        ELSE IF r6.err # "" THEN none
        ELSE IF r7.err # "" THEN none
        ELSE [err |-> "",
              tx |-> [id |-> r1.str, public_key |-> r2.str, name |-> r3.str,
                      surname |-> r4.str, inquiry_id |-> r5.str,
                      datetime |-> data[r5.pos][2], signature |-> r6.str,
                      status |-> r7.str]]

-----------------------------------------------------------------------------
(* Blocks: node/blockchain/block.go *)

\* Block.Hash: version, prev hash, merkle root, Unix timestamp, bits, nonce.
\* The height is not part of the hashed bytes.
BlockHash(b) ==
    Sha256(ToString(b.header.version) \o "," \o b.header.prev_block_hash
           \o b.header.merkle_root \o "," \o ToString(b.header.timestamp)
           \o "," \o ToString(b.header.bits) \o "," \o ToString(b.header.nonce))

RECURSIVE MerkleLevel(_)
\* One pass of the pairing loop: hashes i, i+1 are hashed together, an odd
\* last hash with itself.
MerkleLevel(hashes) ==
    IF Len(hashes) = 0 THEN <<>>
    ELSE IF Len(hashes) = 1 THEN <<Sha256(hashes[1] \o hashes[1])>>
    ELSE <<Sha256(hashes[1] \o hashes[2])>> \o MerkleLevel(SubSeq(hashes, 3, Len(hashes)))

RECURSIVE MerkleReduce(_)
MerkleReduce(hashes) ==
    IF Len(hashes) > 1 THEN MerkleReduce(MerkleLevel(hashes)) ELSE hashes[1]

\* Block.CalculateMerkleRoot over the transaction list txs.
CalculateMerkleRoot(txs) ==
    IF Len(txs) = 0 THEN ""
    ELSE MerkleReduce([i \in 1..Len(txs) |-> TxHash(txs[i])])

\* NewMerkleTree's padding: a level of odd length gets its last node again.
PadEven(nodes) ==
    IF Len(nodes) % 2 # 0 THEN Append(nodes, nodes[Len(nodes)]) ELSE nodes

RECURSIVE TreePairs(_)
\* One level of NewMerkleTree over an even number of node hashes.
TreePairs(nodes) ==
    IF Len(nodes) = 0 THEN <<>>
    ELSE <<Sha256(nodes[1] \o nodes[2])>> \o TreePairs(SubSeq(nodes, 3, Len(nodes)))

RECURSIVE TreeBuild(_)
\* The loop of NewMerkleTree; the result is the hash of nodes[0].
TreeBuild(nodes) ==
    IF Len(nodes) > 1
    THEN LET level == TreePairs(nodes)
         IN  TreeBuild(IF Len(level) > 1 THEN PadEven(level) ELSE level)
    ELSE nodes[1]

\* NewMerkleTree(data).GetRootHash() for a non-empty data: the leaves are the
\* SHA-256 of the data items.
NewMerkleTree(data) ==
    TreeBuild(PadEven([i \in 1..Len(data) |-> Sha256(ToString(data[i]))]))

\* CalculateMerkleRootFromTransactions: the tree over the Serialize bytes.
CalculateMerkleRootFromTransactions(txs) ==
    IF Len(txs) = 0 THEN ""
    ELSE NewMerkleTree([i \in 1..Len(txs) |-> Serialize(txs[i])])

\* NewBlock at clock t: nonce and bits are left zero.
NewBlock(transactions, prevBlockHash, height, t) ==
    [header |-> [version |-> BlockVersion, prev_block_hash |-> prevBlockHash,
                 merkle_root |-> CalculateMerkleRoot(transactions),
                 timestamp |-> t, bits |-> 0, nonce |-> 0, height |-> height],
     transactions |-> transactions]

GenesisTx(t) ==
    [id |-> "genesis", public_key |-> "0000000000000000000000000000000000000000",
     name |-> "Genesis", surname |-> "Block", inquiry_id |-> "genesis",
     datetime |-> t, signature |-> "", status |-> ""]

GenesisBlock(t) == NewBlock(<<GenesisTx(t)>>, "0", 0, t)

\* Block.Validate without its comparison of the Merkle root.
BlockValidateNoRoot(b, t) ==
    IF Len(b.transactions) = 0 THEN "block has no transactions"
    ELSE IF \E i \in 1..Len(b.transactions) : TxValidate(b.transactions[i], t) # ""
         THEN "invalid transaction"
    ELSE ""

\* Block.Validate at clock t: "" when valid, else the error.
BlockValidate(b, t) ==
    IF Len(b.transactions) = 0 THEN "block has no transactions"
    ELSE IF CalculateMerkleRoot(b.transactions) # b.header.merkle_root
         THEN "invalid merkle root"
    ELSE IF \E i \in 1..Len(b.transactions) : TxValidate(b.transactions[i], t) # ""
         THEN "invalid transaction"
    ELSE ""

-----------------------------------------------------------------------------
(* Proof of work: node/consensus *)

\* Leading zero bits of digests, by residue of the header's numeric fields.
LZTable == <<3, 16, 7, 21, 0, 5, 12, 9, 15, 17, 20>>

\* ProofOfWork.calculateHash: the digest of the same header bytes Block.Hash
\* writes, seen through its number of leading zero bits.
LeadingZeroBits(b) ==
    LZTable[((b.header.version + b.header.timestamp + 2 * b.header.bits
              + 5 * b.header.nonce) % Len(LZTable)) + 1]

\* ProofOfWork.Validate: hashInt.Cmp(pow.target) == -1 with
\* pow.target = 1 << (256 - targetBits).
PowValidate(targetBits, b) == LeadingZeroBits(b) >= targetBits

\* Width in bits of the nonce counter the search of Mine is followed over.
NonceBits == 3

\* math.MaxUint32 at that width.
MaxNonce == 2^NonceBits - 1

RECURSIVE MineLoop(_, _, _)
\* The loop of ProofOfWork.Mine from nonce on.  header.Nonce = nonce is
\* written to the copy that getBlockHeader returns, so every round hashes
\* the block as it was handed in.  found is the value Mine returns, tried
\* the values of nonce of the rounds it ran.
MineLoop(targetBits, b, nonce) ==
    IF ~(nonce < MaxNonce) THEN [found |-> FALSE, tried |-> <<>>]
    ELSE IF PowValidate(targetBits, b) THEN [found |-> TRUE, tried |-> <<nonce>>]
    ELSE LET rest == MineLoop(targetBits, b, nonce + 1)
         IN  [found |-> rest.found, tried |-> <<nonce>> \o rest.tried]

\* A Mine that reports success whatever the hashes were.
PowMineAlways(targetBits, b) == TRUE

\* ProofOfWork.Mine(block).
PowMine(targetBits, b) == MineLoop(targetBits, b, 0).found

\* CalculateDifficulty(currentBits, actualTime, targetTime); / on int64 is
\* the truncating division.
CalculateDifficulty(currentBits, actualTime, targetTime) ==
    IF actualTime < targetTime \div 2
    THEN IF currentBits < 32 THEN currentBits + 1 ELSE currentBits
    ELSE IF actualTime > targetTime * 2
    THEN IF currentBits > 1 THEN currentBits - 1 ELSE currentBits
    ELSE currentBits

-----------------------------------------------------------------------------
(* Store: node/storage *)

EmptyMap == [k \in {} |-> ""]

EmptyDb == [blocks |-> EmptyMap, certs |-> EmptyMap, meta |-> EmptyMap]

Put(map, key, value) == (key :> value) @@ map

\* Database.SaveBlock: height key, hash key and the height marker in one
\* atomic update.  The type assertion that reads Header.Height and Hash()
\* is taken to hold for a *Block.
SaveBlock(d, b) ==
    [d EXCEPT !.blocks = Put(Put(@, "block:height:" \o ToString(b.header.height), b),
                             "block:hash:" \o BlockHash(b), b),
              !.meta = Put(@, "blockchain:height", ToString(b.header.height))]

\* Database.SaveCertification: the three index keys in one atomic update.
SaveCertification(d, cert) ==
    [d EXCEPT !.certs = Put(Put(Put(@, "cert:pk:" \o cert.public_key, cert),
                                "cert:id:" \o cert.name \o ":" \o cert.surname, cert),
                            "cert:inq:" \o cert.inquiry_id, cert)]

\* Database.GetAllBlocks: returns nil, nil whatever the store holds.
DbGetAllBlocks(d) == <<>>

-----------------------------------------------------------------------------
(* Chain manager: node/blockchain (Blockchain) *)

\* The certification AddBlock projects from transaction tx of block b.
CertOf(tx, b) ==
    [public_key |-> tx.public_key, name |-> tx.name, surname |-> tx.surname,
     inquiry_id |-> tx.inquiry_id, datetime |-> tx.datetime,
     block_hash |-> BlockHash(b), height |-> b.header.height]

RECURSIVE SaveCerts(_, _, _, _)
\* The loop of AddBlock over block.Transactions from index i on; a failing
\* SaveCertification (i \in failing) is logged and skipped.
SaveCerts(d, b, i, failing) ==
    IF i > Len(b.transactions) THEN d
    ELSE SaveCerts(IF i \in failing THEN d
                   ELSE SaveCertification(d, CertOf(b.transactions[i], b)),
                   b, i + 1, failing)

\* Blockchain.removeMinedTransactions: pool entries are dropped by ID.
RemoveMinedTransactions(pool, minedTxs) ==
    SelectSeq(pool, LAMBDA p : \A i \in 1..Len(minedTxs) : p.id # minedTxs[i].id)

\* An inquiryExists that takes the chain lock for reading.
InquiryExistsLocksChain == {"mu"}

\* The locks inquiryExists takes before it reads the block list and the
\* pool: none (its caller AddTransaction holds miningMu).
InquiryExistsLocks == {}

\* Blockchain.inquiryExists over the block list and the pool.
InquiryExists(chain, pool, inquiryID) ==
    \/ \E i \in 1..Len(chain) : \E j \in 1..Len(chain[i].transactions) :
          chain[i].transactions[j].inquiry_id = inquiryID
    \/ \E i \in 1..Len(pool) : pool[i].inquiry_id = inquiryID

\* The checks of AddBlock without the comparison of the previous hash and
\* of the height against the last block.
AddBlockChecksNoLink(chain, targetBits, b, t) ==
    IF BlockValidate(b, t) # "" THEN "invalid block: " \o BlockValidate(b, t)
    ELSE IF ~PowValidate(targetBits, b) THEN "invalid proof of work"
    ELSE ""

\* The checks of Blockchain.AddBlock before it appends: "" when it accepts.
AddBlockChecks(chain, targetBits, b, t) ==
    IF BlockValidate(b, t) # "" THEN "invalid block: " \o BlockValidate(b, t)
    ELSE IF Len(chain) > 0
            /\ b.header.prev_block_hash # BlockHash(chain[Len(chain)])
         THEN "invalid previous block hash"
    ELSE IF Len(chain) > 0
            /\ b.header.height # IncUint64(chain[Len(chain)].header.height)
         THEN "invalid block height"
    ELSE IF ~PowValidate(targetBits, b) THEN "invalid proof of work"
    ELSE ""

\* The chain manager's state that AddBlock reads and writes.
ChainState(chain, height, pool, d) ==
    [err |-> "", blocks |-> chain, currentHeight |-> height,
     miningPool |-> pool, db |-> d]

\* Blockchain.AddBlock(b) at clock t on state st.  saveFails is the outcome
\* of db.SaveBlock, certFails the indexes of the transactions whose
\* SaveCertification fails.
AddBlock(st, targetBits, b, t, saveFails, certFails) ==
    LET err == AddBlockChecks(st.blocks, targetBits, b, t) IN
    IF err # "" THEN [st EXCEPT !.err = err]
    ELSE IF saveFails THEN
        \* appended, then rolled back: the list is cut, the height decremented
        [st EXCEPT !.err = "failed to save block",
                   !.currentHeight = DecUint64(b.header.height)]
    ELSE
        [st EXCEPT !.err = "",
                   !.blocks = Append(st.blocks, b),
                   !.currentHeight = b.header.height,
                   !.db = SaveCerts(SaveBlock(st.db, b), b, 1, certFails),
                   !.miningPool = RemoveMinedTransactions(st.miningPool, b.transactions)]

\* Blockchain.AddTransaction(tx) at clock t: "" when tx is pooled.
AddTransactionChecks(chain, pool, tx, t) ==
    IF TxValidate(tx, t) # "" THEN TxValidate(tx, t)
    ELSE IF VerifySignature(tx) # "" THEN "invalid signature"
    ELSE IF InquiryExists(chain, pool, tx.inquiry_id) THEN "inquiry ID already exists"
    ELSE IF \E i \in 1..Len(pool) : pool[i].id = tx.id THEN "transaction already in pool"
    ELSE ""

AddTransaction(chain, pool, tx, t) ==
    IF AddTransactionChecks(chain, pool, tx, t) = "" THEN Append(pool, tx) ELSE pool

Min(a, b) == IF a < b THEN a ELSE b

\* A mineBlock that packs the first pooled transaction only.
CopyForMiningOne(pool) == SubSeq(pool, 1, Min(Len(pool), 1))

\* mineBlock under miningMu: the copy of the first maxTx pool entries.
CopyForMining(pool) == SubSeq(pool, 1, Min(Len(pool), MaxTxPerBlock))

\* mineBlock up to the call of Mine: the first maxTx pooled transactions on
\* top of the latest block, at the node's difficulty.
MineCandidate(chain, pool, bits, t) ==
    LET txs  == CopyForMining(pool)
        tip  == chain[Len(chain)]
        blk  == NewBlock(txs, BlockHash(tip), IncUint64(tip.header.height), t)
    IN  [blk EXCEPT !.header.bits = bits]
\* The height test of mineBlock before it calls adjustDifficulty.
RetargetWindow == 2016

\* mining.target_block_time of the default configuration, in seconds.
TargetBlockTime == 600

\* adjustDifficulty takes the lock and writes a log line: bc.difficulty and
\* bc.pow are left as they are; the result is bc.difficulty afterwards.
AdjustDifficulty(bits) == bits

\* bc.difficulty after mineBlock has added the block it mined.
DifficultyAfterMined(bits, b) ==
    IF b.header.height % RetargetWindow = 0 THEN AdjustDifficulty(bits) ELSE bits


\* NewBlockchain after the struct literal, at clock t over store d:
\* loadFromDB, and on its error AddBlock of a fresh genesis block.
NewBlockchain(d, targetBits, t, saveFails, certFails) ==
    LET loaded == DbGetAllBlocks(d)
        fresh  == ChainState(<<>>, 0, <<>>, d)
    IN  IF Len(loaded) > 0
        THEN [fresh EXCEPT !.blocks = loaded, !.currentHeight = Len(loaded) - 1]
        ELSE AddBlock(fresh, targetBits, GenesisBlock(t), t, saveFails, certFails)

\* No result (nil).
NoCert == <<>>

\* Database.GetCertificationByPublicKey / GetCertificationByIdentity: the
\* value under key, nil when the key is not found.
DbGetCertification(d, key) ==
    IF key \in DOMAIN d.certs THEN d.certs[key] ELSE NoCert

\* The transaction the Blockchain getters build from a certification of the
\* store: five fields, the others left at their zero values.
TxOfCert(cert) ==
    [public_key |-> cert.public_key, name |-> cert.name, surname |-> cert.surname,
     inquiry_id |-> cert.inquiry_id, datetime |-> cert.datetime,
     signature |-> "", id |-> "", status |-> ""]

\* The condition of the two scans: the public key, or name and surname.
TxMatches(tx, q) ==
    IF q.by = "public_key" THEN tx.public_key = q.public_key
    ELSE tx.name = q.name /\ tx.surname = q.surname

\* The inner loop of the scan: the first transaction of txs that matches.
ScanBlock(txs, q) ==
    LET hits == {i \in 1..Len(txs) : TxMatches(txs[i], q)}
    IN  IF hits = {} THEN NoCert
        ELSE txs[CHOOSE i \in hits : \A j \in hits : i <= j]

\* The scan of the getters: the last block with a match, and its first
\* match.
ScanChain(chain, q) ==
    LET hits == {i \in 1..Len(chain) : ScanBlock(chain[i].transactions, q) # NoCert}
    IN  IF hits = {} THEN NoCert
        ELSE ScanBlock(chain[CHOOSE i \in hits : \A j \in hits : i >= j].transactions, q)

\* The getters of Blockchain: the store first, then the chain from the
\* newest block to the oldest.
Lookup(chain, d, key, q) ==
    IF DbGetCertification(d, key) # NoCert THEN TxOfCert(DbGetCertification(d, key))
    ELSE ScanChain(chain, q)

GetCertificationByPublicKey(chain, d, publicKey) ==
    Lookup(chain, d, "cert:pk:" \o publicKey,
           [by |-> "public_key", public_key |-> publicKey])

GetCertificationByIdentity(chain, d, name, surname) ==
    Lookup(chain, d, "cert:id:" \o name \o ":" \o surname,
           [by |-> "identity", name |-> name, surname |-> surname])

-----------------------------------------------------------------------------
(* Identity verifier: node/api (PersonaClient) *)

\* What the Persona service holds for an inquiry id.
PersonaInquiry(inquiryID) ==
    IF inquiryID = "inq-1"
    THEN [status |-> "completed", name_first |-> "Alice", name_last |-> "Doe",
          created_at |-> T0]
    ELSE IF inquiryID = "inq-2"
    THEN [status |-> "approved", name_first |-> "Bob", name_last |-> "Roe",
          created_at |-> T0 - Day]
    ELSE IF inquiryID = "inq-4"
    THEN [status |-> "approved", name_first |-> "Alice", name_last |-> "Doe",
          created_at |-> T0]
    ELSE IF inquiryID = "inq-5"
    THEN [status |-> "approved", name_first |-> "Ann:Lee", name_last |-> "Poe",
          created_at |-> T0]
    ELSE IF inquiryID = "inq-3"
    THEN [status |-> "approved", name_first |-> "Carol", name_last |-> "Poe",
          created_at |-> T0]
    ELSE [status |-> "pending", name_first |-> "", name_last |-> "", created_at |-> T0]

\* PersonaClient.VerifyIdentity at clock t once GetInquiry has returned inq.
VerifyInquiry(inq, expectedName, expectedSurname, t) ==
    IF inq.status # "completed" /\ inq.status # "approved"
    THEN [err |-> "inquiry not completed", verified |-> FALSE]
    ELSE IF expectedName # "" /\ expectedSurname # ""
            /\ (inq.name_first # expectedName \/ inq.name_last # expectedSurname)
         THEN [err |-> "name mismatch", verified |-> FALSE]
    ELSE IF t - inq.created_at > Day
         THEN [err |-> "inquiry too old", verified |-> FALSE]
    ELSE [err |-> "", verified |-> TRUE]

\* PersonaClient.VerifyIdentity at clock t; reachable is whether GetInquiry
\* got an HTTP 200 answer.
VerifyIdentity(reachable, inquiryID, expectedName, expectedSurname, t) ==
    IF ~reachable THEN [err |-> "failed to get inquiry", verified |-> FALSE]
    ELSE VerifyInquiry(PersonaInquiry(inquiryID), expectedName, expectedSurname, t)

\* MockPersonaClient.VerifyIdentity once its GetInquiry has returned inq: no
\* error, and no look at the clock.
MockVerifyInquiry(inq, expectedName, expectedSurname) ==
    [err |-> "",
     verified |-> /\ inq.status = "completed" \/ inq.status = "approved"
                  /\ inq.name_first = expectedName
                  /\ inq.name_last = expectedSurname]

-----------------------------------------------------------------------------
(* Submission handler: node/network/server.go *)

\* handleSubmitCertification from the decoded request r up to NewTransaction:
\* an absent datetime becomes the clock t.
SubmittedTx(r, t) ==
    NewTransaction(r.public_key, r.name, r.surname, r.inquiry_id,
                   IF r.datetime = ZeroTime THEN t ELSE r.datetime, r.signature)

\* The handler's checks without the call of VerifySignature.
SubmitPrecheckNoSignature(tx, t) ==
    IF TxValidate(tx, t) # "" THEN "Invalid transaction: " \o TxValidate(tx, t)
    ELSE ""

\* The handler's checks before it calls the verifier: "" when it goes on.
SubmitPrecheck(tx, t) ==
    IF TxValidate(tx, t) # "" THEN "Invalid transaction: " \o TxValidate(tx, t)
    ELSE IF VerifySignature(tx) # "" THEN "Invalid signature: " \o VerifySignature(tx)
    ELSE ""

\* A handler that goes on to AddTransaction whatever VerifyIdentity returned.
SubmitIdentityCheckNone(res) == ""

\* The handler once VerifyIdentity has returned res: "" when it goes on to
\* AddTransaction.
SubmitIdentityCheck(res) ==
    IF res.err # "" THEN "Identity verification failed: " \o res.err
    ELSE IF ~res.verified THEN "Identity not verified"
    ELSE ""

-----------------------------------------------------------------------------
(* Block queries: node/network/server.go, node/blockchain (Blockchain) *)

\* Blockchain.GetBlock: the block list is indexed by the height asked for.
GetBlock(chain, height) ==
    IF height < 0 \/ height >= Len(chain)
    THEN [err |-> "block not found", block |-> <<>>]
    ELSE [err |-> "", block |-> chain[height + 1]]

\* Blockchain.GetLatestBlock: the last block of the list, nil (<<>>) on an
\* empty list.
GetLatestBlock(chain) == IF Len(chain) = 0 THEN <<>> ELSE chain[Len(chain)]

\* The decimal strings among the path segments of the model.
Decimals == [seg \in {ToString(n) : n \in 0..9} |->
               CHOOSE n \in 0..9 : ToString(n) = seg]

\* fmt.Sscanf(seg, "%d", &height) on var height uint64: a segment that is
\* not a number leaves height at 0; the error is not looked at.
ScanHeight(seg) == IF seg \in DOMAIN Decimals THEN Decimals[seg] ELSE 0

\* handleGetBlock for the path variable seg.
HandleGetBlock(chain, seg) ==
    LET got == GetBlock(chain, ScanHeight(seg)) IN
    IF got.err # "" THEN [status |-> 404, body |-> <<>>]
    ELSE [status |-> 200, body |-> got.block]

HandleGetLatestBlock(chain) ==
    IF GetLatestBlock(chain) = <<>> THEN [status |-> 404, body |-> <<>>]
    ELSE [status |-> 200, body |-> GetLatestBlock(chain)]

\* The GET routes setupRoutes registers below /api/v1/blocks/, in its order.
BlockRoutes ==
    << [segment |-> "{height}", handler |-> "handleGetBlock"],
       [segment |-> "latest",   handler |-> "handleGetLatestBlock"] >>

\* mux route matching: a variable matches any segment, a literal itself.
RouteMatches(route, seg) == route.segment = "{height}" \/ route.segment = seg

\* The router serves the first route registered that matches.
RouteFor(seg) ==
    LET hits == { i \in 1..Len(BlockRoutes) : RouteMatches(BlockRoutes[i], seg) }
    IN  BlockRoutes[CHOOSE i \in hits : \A j \in hits : i <= j]

\* GET /api/v1/blocks/<seg>.
ServeBlock(chain, seg) ==
    IF RouteFor(seg).handler = "handleGetLatestBlock"
    THEN HandleGetLatestBlock(chain)
    ELSE HandleGetBlock(chain, seg)

-----------------------------------------------------------------------------
(* Network client: node/network (Client) *)

\* json.NewEncoder(w).Encode(block) on the peer and json.Decode into a
\* blockchain.Block on the client: the fields that carry a JSON tag, which
\* are all fields of BlockHeader and of Transaction.
JsonTransaction(tx) ==
    [id |-> tx.id, public_key |-> tx.public_key, name |-> tx.name,
     surname |-> tx.surname, inquiry_id |-> tx.inquiry_id,
     datetime |-> tx.datetime, signature |-> tx.signature, status |-> tx.status]

JsonBlock(b) ==
    [header |-> [version |-> b.header.version,
                 prev_block_hash |-> b.header.prev_block_hash,
                 merkle_root |-> b.header.merkle_root,
                 timestamp |-> b.header.timestamp, bits |-> b.header.bits,
                 nonce |-> b.header.nonce, height |-> b.header.height],
     transactions |-> [i \in 1..Len(b.transactions) |->
                         JsonTransaction(b.transactions[i])]]

\* Client.GetBlock against a peer that serves the chain peer.
ClientGetBlock(peer, height) ==
    LET r == ServeBlock(peer, ToString(height)) IN
    IF r.status # 200 THEN [err |-> "block not found", block |-> <<>>]
    ELSE [err |-> "", block |-> JsonBlock(r.body)]

\* Client.GetLatestBlock: GET /api/v1/blocks/latest on the peer.
ClientGetLatestBlock(peer) ==
    LET r == ServeBlock(peer, "latest") IN
    IF r.status # 200 THEN [err |-> "latest block not found", block |-> <<>>]
    ELSE [err |-> "", block |-> JsonBlock(r.body)]

RECURSIVE FetchBlocks(_, _, _)
\* The download loop of SyncBlockchain from height up to top.
FetchBlocks(peer, height, top) ==
    IF height > top THEN [err |-> "", blocks |-> <<>>]
    ELSE LET got  == ClientGetBlock(peer, height)
             rest == FetchBlocks(peer, height + 1, top)
         IN  IF got.err # "" THEN [err |-> "failed to get block", blocks |-> <<>>]
             ELSE IF rest.err # "" THEN rest
             ELSE [err |-> "", blocks |-> <<got.block>> \o rest.blocks]

\* Client.SyncBlockchain(peerAddr, currentHeight): the blocks it returns.
SyncBlockchain(reachable, peer, height) ==
    LET latest == ClientGetLatestBlock(peer) IN
    IF ~reachable \/ latest.err # ""
    THEN [err |-> "failed to get peer's latest block", blocks |-> <<>>]
    ELSE IF LeqUint64(latest.block.header.height, height)
    THEN [err |-> "", blocks |-> <<>>]
    ELSE FetchBlocks(peer, IncUint64(height), latest.block.header.height)

-----------------------------------------------------------------------------
(* Peer services: node/network (Server, Discovery) *)

\* network.flag of the default configuration.
ConfigFlag == "CERTIFICATION-BLOCKCHAIN-CLS"

\* A datagram: its bytes as text, whether json.Unmarshal into the message
\* struct succeeds, and the flag and type fields it then holds.
JsonDatagram(flag, type) ==
    [json |-> TRUE, flag |-> flag, type |-> type,
     text |-> "{\"flag\":\"" \o flag \o "\",\"type\":\"" \o type \o "\"}"]

TextDatagram(text) == [json |-> FALSE, flag |-> "", type |-> "", text |-> text]

\* The response of Server.startUDPListener to a datagram, "" for none, with
\* no test of the flag of a JSON message.
UDPResponseAnyFlag(d) ==
    IF ~d.json
    THEN IF d.text = ConfigFlag THEN "NODE:0.0.0.0:8333" ELSE ""
    ELSE IF d.type = "client_discovery" THEN "node_announce" ELSE ""

\* The response of Server.startUDPListener to a datagram, "" for none.
UDPResponse(d) ==
    IF ~d.json
    THEN IF d.text = ConfigFlag THEN "NODE:0.0.0.0:8333" ELSE ""
    ELSE IF d.flag = ConfigFlag /\ d.type = "client_discovery"
         THEN "node_announce" ELSE ""

\* The response of Discovery.listenForBroadcasts to a datagram.
BroadcastResponse(d) ==
    IF d.text = ConfigFlag THEN "NODE:0.0.0.0:8333" ELSE ""

\* The age limit of maintainPeers, in seconds.
PeerTTL == 5 * 60

\* Server.AddPeer(address) at clock t.
AddPeer(table, address, t) ==
    Put(table, address, [address |-> address, last_seen |-> t])

\* The sweep of maintainPeers at clock t, deleting entries of age PeerTTL
\* as well.
SweepPeersAtTTL(table, t) ==
    [a \in {x \in DOMAIN table : ~(t - table[x].last_seen >= PeerTTL)} |-> table[a]]

\* The sweep of maintainPeers at clock t.
SweepPeers(table, t) ==
    [a \in {x \in DOMAIN table : ~(t - table[x].last_seen > PeerTTL)} |-> table[a]]

\* The address of the node itself.
Self == "n0:8333"

\* queryPeerForCascade(addr) in a network net: the addresses of the JSON
\* list that addr answers GET /api/v1/peers with; none when the request
\* fails.  The node itself answers with its peer table (handleGetPeers).
QueryPeerForCascade(net, table, addr) ==
    IF addr = Self THEN DOMAIN table
    ELSE IF addr \in net.up THEN net.lists[addr]
    ELSE {}

\* A call of ExecuteCascadeDiscovery(maxDepth) before its loop: the current
\* peers are the first to be queried and count as discovered.
CascadeBegin(net, table, maxDepth) ==
    [net |-> net, maxDepth |-> maxDepth, depth |-> 0, seeds |-> DOMAIN table,
     toQuery |-> DOMAIN table, discovered |-> DOMAIN table,
     queried |-> <<>>, added |-> <<>>]

\* A loop condition without the limit on the depth.
CascadeContinuesUnbounded(run) == run.toQuery # {}

\* A loop condition that gives up one round early.
CascadeContinuesShort(run) == run.depth < run.maxDepth - 1 /\ run.toQuery # {}

\* Whether the loop of ExecuteCascadeDiscovery runs once more.
CascadeContinues(run) == run.depth < run.maxDepth /\ run.toQuery # {}

\* The addresses one round of the loop finds: the answers of all of toQuery
\* that are not discovered yet.
CascadeFound(run, table) ==
    UNION {QueryPeerForCascade(run.net, table, a) : a \in run.toQuery}
        \ run.discovered

\* The call after one round of its loop.
CascadeRound(run, table) ==
    LET found == CascadeFound(run, table) IN
    [run EXCEPT !.depth = @ + 1, !.toQuery = found,
                !.discovered = @ \cup found,
                !.queried = Append(@, run.toQuery),
                !.added = Append(@, found)]

RECURSIVE AddPeers(_, _, _)
\* Server.AddPeer for each of addresses at clock t.
AddPeers(table, addresses, t) ==
    IF addresses = {} THEN table
    ELSE LET a == CHOOSE x \in addresses : TRUE
         IN  AddPeers(AddPeer(table, a, t), addresses \ {a}, t)

-----------------------------------------------------------------------------
(* Inputs *)

Request(pk, name, surname, inq, dt, sig) ==
    [public_key |-> pk, name |-> name, surname |-> surname,
     inquiry_id |-> inq, datetime |-> dt, signature |-> sig]

\* A request whose signature was made over the datetime signedDt.
SignedRequest(pk, name, surname, inq, dt, signedDt) ==
    Request(pk, name, surname, inq, dt,
            RSASign(pk, pk \o "|" \o name \o "|" \o surname \o "|" \o inq
                        \o "|" \o ToString(signedDt)))

ReqAlice    == SignedRequest("pkA", "Alice", "Doe", "inq-1", T0, T0)
ReqBob      == SignedRequest("pkB", "Bob", "Roe", "inq-2", T0 - Day, T0 - Day)
ReqMismatch == SignedRequest("pkB", "Alice", "Smith", "inq-1", T0, T0)
ReqForged   == Request("pkA", "Alice", "Doe", "inq-1", T0, "cmFuZG9t")
ReqNoName   == SignedRequest("pkA", "", "Doe", "inq-1", T0, T0)
ReqAlice4   == SignedRequest("pkA", "Alice", "Doe", "inq-4", T0, T0)
ReqColon    == SignedRequest("pkC", "Ann:Lee", "Poe", "inq-5", T0, T0)
ReqCarol    == SignedRequest("pkC", "Carol", "Poe", "inq-3", T0, T0)

\* Submissions clients send.
Requests == {ReqAlice, ReqBob, ReqMismatch, ReqForged, ReqNoName}

PeerBlock(prev, root, bits, nonce, height, txs) ==
    [header |-> [version |-> BlockVersion, prev_block_hash |-> prev,
                 merkle_root |-> root, timestamp |-> T0, bits |-> bits,
                 nonce |-> nonce, height |-> height],
     transactions |-> txs]

TipHash(chain) == IF Len(chain) = 0 THEN "0" ELSE BlockHash(chain[Len(chain)])

NextHeight(chain) ==
    IF Len(chain) = 0 THEN 0 ELSE IncUint64(chain[Len(chain)].header.height)

\* The block built on the tip around Alice's transaction.
LinkedPeerBlock(chain) ==
    PeerBlock(TipHash(chain),
              CalculateMerkleRoot(<<SubmittedTx(ReqAlice, T0)>>),
              InitialDifficulty, 0, NextHeight(chain),
              <<SubmittedTx(ReqAlice, T0)>>)

\* What the tip itself names as its predecessor: the previous hash of a
\* block that forks off beside the tip.
ForkHash(chain) ==
    IF Len(chain) = 0 THEN "0" ELSE chain[Len(chain)].header.prev_block_hash

\* Blocks handed to AddBlock from outside the mining loop: one built on the
\* tip around Alice's transaction, and the blocks that differ from it in one
\* respect: another transaction for the same inquiry, a higher bits field,
\* another nonce, no transactions, a foreign Merkle root, a previous hash
\* that is not the tip's, a height that skips one.
PeerBlocks(chain) ==
    LET txs  == <<SubmittedTx(ReqAlice, T0)>>
        alt  == <<SubmittedTx(ReqMismatch, T0)>>
        root == CalculateMerkleRoot(txs)
        prev == TipHash(chain)
        h    == NextHeight(chain)
        bits == InitialDifficulty
    IN  { LinkedPeerBlock(chain),
          PeerBlock(prev, CalculateMerkleRoot(alt), bits, 0, h, alt),
          PeerBlock(prev, root, bits + 4, 0, h, txs),
          PeerBlock(prev, root, bits, 1, h, txs),
          PeerBlock(prev, CalculateMerkleRoot(<<>>), bits, 0, h, <<>>),
          PeerBlock(prev, txs[1].id \o "00", bits, 0, h, txs),
          PeerBlock(ForkHash(chain), root, bits, 0, h, txs),
          PeerBlock(prev, root, bits, 0, IncUint64(h), txs) }

\* The block built on the tip around Bob's transaction.
LinkedBobBlock(chain) ==
    PeerBlock(TipHash(chain),
              CalculateMerkleRoot(<<SubmittedTx(ReqBob, T0)>>),
              InitialDifficulty, 0, NextHeight(chain),
              <<SubmittedTx(ReqBob, T0)>>)

\* A block around Alice's transaction that closes a retarget window when it
\* is the first the node is handed, and is built on the tip otherwise.
WindowBlock(chain) ==
    PeerBlock(TipHash(chain),
              CalculateMerkleRoot(<<SubmittedTx(ReqAlice, T0)>>),
              InitialDifficulty, 0,
              IF Len(chain) = 0 THEN RetargetWindow - 1 ELSE NextHeight(chain),
              <<SubmittedTx(ReqAlice, T0)>>)

\* The chain of a peer that is two blocks ahead of chain.
PeerChain(chain) ==
    Append(Append(chain, LinkedPeerBlock(chain)),
           LinkedBobBlock(Append(chain, LinkedPeerBlock(chain))))

\* The blocks of the chain, handed to AddBlock once more.
KnownBlocks(chain) == { chain[i] : i \in 1..Len(chain) }

\* Outcomes of the store writes of one AddBlock(b): whether SaveBlock fails
\* and which SaveCertification calls fail.  writes is whether AddBlock gets
\* as far as the store, mayFail whether a write may still fail.
StoreOutcomes(writes, mayFail, b) ==
    IF writes /\ mayFail
    THEN {<<TRUE, {}>>} \cup { <<FALSE, f>> : f \in SUBSET (1..Len(b.transactions)) }
    ELSE {<<FALSE, {}>>}

\* The fault count after a call with store outcome o.
Faults(n, o) == IF o[1] \/ o[2] # {} THEN n + 1 ELSE n

-----------------------------------------------------------------------------
(* State machine *)

\* The goroutines that call into Blockchain side by side: the handler of a
\* submission, the handler of a block from a peer, the mining loop, and the
\* handler of a query.
Goroutines == {"submit", "peer", "miner"}

\* A goroutine outside every Blockchain method.
Idle == [at |-> "idle"]

Done(op, err, arg) == [op |-> op, err |-> err, arg |-> arg]

\* What an AddBlock call was given; known is whether the block is one of
\* the chain already.
BlockArg(src, b, saveFails) ==
    [src |-> src, emptyBody |-> Len(b.transactions) = 0,
     rootOk |-> CalculateMerkleRoot(b.transactions) = b.header.merkle_root,
     known |-> \E i \in 1..Len(blocks) : blocks[i] = b,
     saveFails |-> saveFails]

Init ==
    /\ blocks = <<>>
    /\ currentHeight = 0
    /\ miningPool = <<>>
    /\ difficulty = InitialDifficulty
    /\ powTargetBits = InitialDifficulty
    /\ db = EmptyDb
    /\ now = T0
    /\ proc = "running"
    /\ ioFaults = 0
    /\ last = Done("new", "", <<>>)
    /\ miner = [at |-> "select", block |-> <<>>]
    /\ ctxDone = FALSE
    /\ peers = <<>>
    /\ knownPeers = {}
    /\ cascades = <<>>
    /\ locks = [mu |-> "", miningMu |-> ""]
    /\ calls = [g \in Goroutines |-> Idle]

\* The state AddBlock works on.
Chain == ChainState(blocks, currentHeight, miningPool, db)

SetChain(st) ==
    /\ blocks' = st.blocks
    /\ currentHeight' = st.currentHeight
    /\ miningPool' = st.miningPool
    /\ db' = st.db

\* The process starts: memory is the struct literal, NewBlockchain runs over
\* the store; on its error main calls Fatal.
StartNode ==
    /\ proc = "running"
    /\ \E o \in StoreOutcomes(/\ Len(DbGetAllBlocks(db)) = 0
                              /\ AddBlockChecks(<<>>, InitialDifficulty,
                                                GenesisBlock(now), now) = "",
                              ioFaults < MaxFaults, GenesisBlock(now)) :
        LET st == NewBlockchain(db, InitialDifficulty, now, o[1], o[2]) IN
        /\ SetChain(st)
        /\ ioFaults' = Faults(ioFaults, o)
        /\ proc' = IF st.err = "" THEN "running" ELSE "exited"
        /\ last' = Done("NewBlockchain", st.err,
                        [stored |-> "blockchain:height" \in DOMAIN db.meta,
                         saveFails |-> o[1]])
    /\ difficulty' = InitialDifficulty
    /\ powTargetBits' = InitialDifficulty
    /\ UNCHANGED now
    /\ UNCHANGED <<taskVars, netVars, lockVars>>

\* One of the blocks offered is handed to AddBlock from outside the mining
\* loop.
AddBlockFrom(offered) ==
    /\ proc = "running"
    /\ \E b \in offered :
       \E o \in StoreOutcomes(AddBlockChecks(blocks, powTargetBits, b, now) = "",
                               ioFaults < MaxFaults, b) :
        LET st == AddBlock(Chain, powTargetBits, b, now, o[1], o[2]) IN
        /\ Len(blocks) < MaxBlocks \/ st.err # ""
        /\ SetChain(st)
        /\ ioFaults' = Faults(ioFaults, o)
        /\ last' = Done("AddBlock", st.err, BlockArg("peer", b, o[1]))
    /\ UNCHANGED <<difficulty, powTargetBits, now, proc>>
    /\ UNCHANGED <<taskVars, netVars, lockVars>>

AcceptPeerBlock == AddBlockFrom(PeerBlocks(blocks) \cup KnownBlocks(blocks))

\* handleSubmitCertification for a request r of requests; reachable, one of
\* answers, is whether the identity service answers.
SubmitFrom(requests, answers) ==
    /\ proc = "running"
    /\ \E r \in requests :
       \E reachable \in IF SubmitPrecheck(SubmittedTx(r, now), now) = ""
                         THEN answers ELSE {TRUE} :
        LET tx  == SubmittedTx(r, now)
            pre == SubmitPrecheck(tx, now)
            res == VerifyIdentity(reachable, tx.inquiry_id, tx.name, tx.surname, now)
            idc == SubmitIdentityCheck(res)
            add == AddTransactionChecks(blocks, miningPool, tx, now)
        IN  IF pre # ""
            THEN /\ miningPool' = miningPool
                 /\ last' = Done("submit", pre,
                                 [http |-> 400, tx |-> tx, verifierCalled |-> FALSE,
                                  verified |-> FALSE])
            ELSE IF idc # ""
            THEN /\ miningPool' = miningPool
                 /\ last' = Done("submit", idc,
                                 [http |-> 400, tx |-> tx, verifierCalled |-> TRUE,
                                  verified |-> res.verified])
            ELSE /\ miningPool' = AddTransaction(blocks, miningPool, tx, now)
                 /\ last' = Done("submit", add,
                                 [http |-> IF add = "" THEN 200 ELSE 500, tx |-> tx,
                                  verifierCalled |-> TRUE, verified |-> res.verified])
    /\ UNCHANGED <<blocks, currentHeight, difficulty, powTargetBits, db, now,
                   proc, ioFaults>>
    /\ UNCHANGED <<taskVars, netVars, lockVars>>

Submit == SubmitFrom(Requests, BOOLEAN)

\* SyncBlockchain is run against a peer with the node's height.  Its result
\* is a list of blocks for its caller; no code of the node calls it or hands
\* the list to AddBlock.
Sync ==
    /\ proc = "running"
    /\ \E reachable \in BOOLEAN :
        LET res == SyncBlockchain(reachable, PeerChain(blocks), currentHeight) IN
        last' = Done("SyncBlockchain", res.err,
                     [peer |-> PeerChain(blocks), reachable |-> reachable,
                      localHeight |-> currentHeight, fetched |-> res.blocks])
    /\ UNCHANGED <<blocks, currentHeight, miningPool, difficulty, powTargetBits,
                   db, now, proc, ioFaults>>
    /\ UNCHANGED <<taskVars, netVars, lockVars>>

\* The search of Mine on the candidate b ends after took seconds; on success
\* mineBlock hands the candidate to AddBlock and tests the retarget height.
MineFinish(b, took) ==
    LET t == now + took IN
    /\ t - T0 <= MaxTicks
    /\ now' = t
    /\ IF PowMine(powTargetBits, b)
       THEN \E o \in StoreOutcomes(AddBlockChecks(blocks, powTargetBits, b, t) = "",
                                   ioFaults < MaxFaults, b) :
              LET st == AddBlock(Chain, powTargetBits, b, t, o[1], o[2]) IN
              /\ SetChain(st)
              /\ ioFaults' = Faults(ioFaults, o)
              /\ last' = Done("AddBlock", st.err, BlockArg("mined", b, o[1]))
              /\ difficulty' = IF st.err = ""
                                THEN DifficultyAfterMined(difficulty, b)
                                ELSE difficulty
       ELSE /\ UNCHANGED <<blocks, currentHeight, miningPool, db, ioFaults,
                           difficulty>>
            /\ last' = Done("mineBlock", "nonce exhausted",
                            [tried |-> MineLoop(powTargetBits, b, 0).tried])

\* A mining tick with a non-empty pool: mineBlock builds its candidate on the
\* latest block, Mine runs for took seconds, and on success the candidate is
\* handed to AddBlock.
Mine ==
    /\ proc = "running"
    /\ Len(miningPool) > 0
    /\ Len(blocks) > 0
    /\ Len(blocks) < MaxBlocks
    /\ \E took \in {0, 1} :
        MineFinish(MineCandidate(blocks, miningPool, difficulty, now), took)
    /\ UNCHANGED <<powTargetBits, proc>>
    /\ UNCHANGED <<taskVars, netVars, lockVars>>

\* A second passes.
Tick ==
    /\ proc = "running"
    /\ now - T0 < MaxTicks
    /\ now' = now + 1
    /\ last' = Done("tick", "", <<>>)
    /\ UNCHANGED <<blocks, currentHeight, miningPool, difficulty, powTargetBits,
                   db, proc, ioFaults>>
    /\ UNCHANGED <<taskVars, netVars, lockVars>>

Next ==
    \/ StartNode
    \/ AcceptPeerBlock
    \/ Submit
    \/ Sync
    \/ Mine
    \/ Tick

Spec == Init /\ [][Next]_vars

\* A node that keeps running, is sent the submissions the verifier answers
\* for, and is handed blocks built on its tip; the mining loop's ticker keeps
\* firing and the clock keeps running.
AcceptLinkedBlock == AddBlockFrom({LinkedPeerBlock(blocks)})

SubmitAnswered == SubmitFrom({ReqAlice, ReqBob}, {TRUE})

MiningNext ==
    \/ AcceptLinkedBlock
    \/ SubmitAnswered
    \/ Mine
    \/ Tick

MiningSpec == Init /\ [][MiningNext]_vars /\ WF_vars(Mine) /\ WF_vars(Tick)

\* A node whose first block is the last one before a retarget height, that
\* is sent the submissions the verifier answers for and mines on.
AcceptWindowBlock == AddBlockFrom({WindowBlock(blocks)})

RetargetNext ==
    \/ AcceptWindowBlock
    \/ SubmitAnswered
    \/ Mine
    \/ Tick

RetargetSpec == Init /\ [][RetargetNext]_vars

\* The functions of a transaction, applied to transactions around the limits
\* of Validate while the clock runs.
TxFields == {"public_key", "name", "surname", "inquiry_id", "signature"}

\* Distances of a datetime from the clock: around 24 hours back, the clock
\* itself, around five minutes ahead.
DatetimeOffsets ==
    {0 - Day - 1, 0 - Day, 1 - Day, 0, FiveMinutes - 1, FiveMinutes,
     FiveMinutes + 1}

\* Alice's transaction dated dt, with field blank (if it names one) empty.
TxDated(dt, blank) ==
    LET r == SignedRequest("pkA", "Alice", "Doe", "inq-1", dt, dt)
    IN  SubmittedTx(IF blank \in TxFields THEN [r EXCEPT ![blank] = ""] ELSE r, dt)

ValidateTx ==
    /\ \E d \in DatetimeOffsets, blank \in TxFields \cup {"none"} :
        LET tx == TxDated(now + d, blank) IN
        last' = Done("Validate", TxValidate(tx, now), [tx |-> tx, blank |-> blank])
    /\ UNCHANGED <<blocks, currentHeight, miningPool, difficulty, powTargetBits,
                   db, now, proc, ioFaults>>
    /\ UNCHANGED <<taskVars, netVars, lockVars>>

\* A transaction as NewTransaction builds it, as GenesisBlock builds it, and
\* as a JSON document without a status decodes.
CodecInputs(t) ==
    {TxDated(t + d, blank) : d \in DatetimeOffsets, blank \in TxFields \cup {"none"}}
    \cup {GenesisTx(t)}
    \cup {[TxDated(t + d, "none") EXCEPT !.status = ""] : d \in DatetimeOffsets}

\* Serialize, then DeserializeTransaction of the bytes.
RoundTripTx ==
    /\ \E tx \in CodecInputs(now) :
        LET back == DeserializeTransaction(Serialize(tx)) IN
        last' = Done("RoundTrip", back.err,
                     [tx |-> tx, valid |-> TxValidate(tx, now) = "",
                      back |-> back.tx])
    /\ UNCHANGED <<blocks, currentHeight, miningPool, difficulty, powTargetBits,
                   db, now, proc, ioFaults>>
    /\ UNCHANGED <<taskVars, netVars, lockVars>>

\* The Merkle root of a block around one transaction: built by NewBlock
\* (the genesis block among them) or decoded from a peer's JSON, where the
\* id is the one the document carries.
MerkleRootOfOne ==
    /\ \E tx \in CodecInputs(now)
                  \cup {JsonTransaction([TxDated(now, "none") EXCEPT !.id = "id-1"])} :
        LET b == JsonBlock(NewBlock(<<tx>>, "0", 0, now)) IN
        last' = Done("CalculateMerkleRoot", "",
                     [tx |-> tx, root |-> CalculateMerkleRoot(b.transactions),
                      headerRoot |-> b.header.merkle_root,
                      treeRoot |-> CalculateMerkleRootFromTransactions(b.transactions)])
    /\ UNCHANGED <<blocks, currentHeight, miningPool, difficulty, powTargetBits,
                   db, now, proc, ioFaults>>
    /\ UNCHANGED <<taskVars, netVars, lockVars>>

TxNext ==
    \/ ValidateTx
    \/ MerkleRootOfOne
    \/ RoundTripTx
    \/ Tick

TxSpec == Init /\ [][TxNext]_vars

\* Shutdown.  main cancels the root context, stops the server and returns;
\* the StartMining goroutine runs beside it.  Its select takes the ticker or
\* ctx.Done() when both are ready, and neither mineBlock nor Mine reads the
\* context.
MineBegin ==
    /\ proc = "running"
    /\ miner.at = "select"
    /\ Len(miningPool) > 0
    /\ Len(blocks) > 0
    /\ Len(blocks) < MaxBlocks
    /\ miner' = [at |-> "Mine",
                 block |-> MineCandidate(blocks, miningPool, difficulty, now)]
    /\ UNCHANGED <<blocks, currentHeight, miningPool, difficulty, powTargetBits,
                   db, now, proc, ioFaults, last, ctxDone>>
    /\ UNCHANGED <<netVars, lockVars>>

MineEnd ==
    /\ proc = "running"
    /\ miner.at = "Mine"
    /\ \E took \in {0, 1} : MineFinish(miner.block, took)
    /\ miner' = [at |-> "select", block |-> <<>>]
    /\ UNCHANGED <<powTargetBits, proc, ctxDone>>
    /\ UNCHANGED <<netVars, lockVars>>

\* StartMining returns on ctx.Done().
MinerReturns ==
    /\ proc = "running"
    /\ miner.at = "select"
    /\ ctxDone
    /\ miner' = [at |-> "returned", block |-> <<>>]
    /\ UNCHANGED <<blocks, currentHeight, miningPool, difficulty, powTargetBits,
                   db, now, proc, ioFaults, last, ctxDone>>
    /\ UNCHANGED <<netVars, lockVars>>

\* main receives the signal and calls cancel().
Cancel ==
    /\ proc = "running"
    /\ ~ctxDone
    /\ ctxDone' = TRUE
    /\ last' = Done("cancel", "", <<>>)
    /\ UNCHANGED <<blocks, currentHeight, miningPool, difficulty, powTargetBits,
                   db, now, proc, ioFaults, miner>>
    /\ UNCHANGED <<netVars, lockVars>>

\* main returns after server.Stop() and bc.StopMining(): the process ends.
Exit ==
    /\ proc = "running"
    /\ ctxDone
    /\ proc' = "exited"
    /\ last' = Done("exit", "", <<>>)
    /\ UNCHANGED <<blocks, currentHeight, miningPool, difficulty, powTargetBits,
                   db, now, ioFaults, taskVars>>
    /\ UNCHANGED <<netVars, lockVars>>

ShutdownNext ==
    \/ AcceptLinkedBlock
    \/ SubmitAnswered
    \/ MineBegin
    \/ MineEnd
    \/ MinerReturns
    \/ Cancel
    \/ Exit
    \/ Tick

ShutdownSpec == Init /\ [][ShutdownNext]_vars

\* The peer table under datagrams, peer registrations, the maintenance
\* sweep and the passing of time.
Datagrams ==
    { JsonDatagram(ConfigFlag, "client_discovery"),
      JsonDatagram(ConfigFlag, "node_announce"),
      JsonDatagram("OTHER-NETWORK", "client_discovery"),
      JsonDatagram("", "client_discovery"),
      JsonDatagram("", ""),
      TextDatagram(ConfigFlag),
      TextDatagram("OTHER-NETWORK"),
      TextDatagram(ConfigFlag \o "\n"),
      TextDatagram("") }

PeerAddresses == {"n1:8333", "n2:8333"}

\* A datagram arrives at the socket of Server.startUDPListener.
UDPListener ==
    /\ proc = "running"
    /\ \E d \in Datagrams :
        last' = Done("udp", "", [listener |-> "server", datagram |-> d,
                                response |-> UDPResponse(d), before |-> peers])
    /\ UNCHANGED <<blocks, currentHeight, miningPool, difficulty, powTargetBits,
                   db, now, proc, ioFaults, taskVars, netVars, lockVars>>

\* A datagram arrives at the socket of Discovery.listenForBroadcasts.
BroadcastListener ==
    /\ proc = "running"
    /\ \E d \in Datagrams :
        last' = Done("udp", "", [listener |-> "discovery", datagram |-> d,
                                response |-> BroadcastResponse(d), before |-> peers])
    /\ UNCHANGED <<blocks, currentHeight, miningPool, difficulty, powTargetBits,
                   db, now, proc, ioFaults, taskVars, netVars, lockVars>>

\* POST /api/v1/peers.
HandleAddPeer ==
    /\ proc = "running"
    /\ \E a \in PeerAddresses :
        /\ peers' = AddPeer(peers, a, now)
        /\ last' = Done("AddPeer", "", [address |-> a])
    /\ UNCHANGED <<blocks, currentHeight, miningPool, difficulty, powTargetBits,
                   db, now, proc, ioFaults, taskVars, knownPeers, cascades, lockVars>>

\* The ticker of maintainPeers fires.
MaintainPeers ==
    /\ proc = "running"
    /\ peers' = SweepPeers(peers, now)
    /\ last' = Done("maintainPeers", "", [before |-> peers])
    /\ UNCHANGED <<blocks, currentHeight, miningPool, difficulty, powTargetBits,
                   db, now, proc, ioFaults, taskVars, knownPeers, cascades, lockVars>>

\* The readings of the clock, in seconds after T0, at which the peer
\* services are looked at: around the age limit of the sweep.
ClockMarks == {0, 1, PeerTTL, PeerTTL + 1}

\* Time passes up to a later mark.
Elapse ==
    /\ proc = "running"
    /\ \E m \in ClockMarks :
        /\ T0 + m > now
        /\ now' = T0 + m
    /\ last' = Done("tick", "", <<>>)
    /\ UNCHANGED <<blocks, currentHeight, miningPool, difficulty, powTargetBits,
                   db, proc, ioFaults, taskVars, netVars, lockVars>>

PeerNext ==
    \/ UDPListener
    \/ BroadcastListener
    \/ HandleAddPeer
    \/ MaintainPeers
    \/ Elapse

PeerSpec == Init /\ [][PeerNext]_vars

\* Cascade discovery over the networks the node may find itself in.
\* lists is what each address answers GET /api/v1/peers with, up the
\* addresses that answer it, healthy the addresses whose /api/v1/health
\* answers with a good status and the network's flag.
Network(lists, up, healthy) == [lists |-> lists, up |-> up, healthy |-> healthy]

N1 == "n1:8333"
N2 == "n2:8333"
N3 == "n3:8333"
N4 == "n4:8333"
N5 == "n5:8333"

NoPeers == [a \in {N1, N2, N3, N4, N5} |-> {}]

\* A line n1 - n2 - n3 - n4 - n5 in which every address answers.
LineNetwork ==
    Network([NoPeers EXCEPT ![N1] = {N2}, ![N2] = {N3}, ![N3] = {N4}, ![N4] = {N5}],
            {N1, N2, N3, N4, N5}, {N1, N2, N3, N4, N5})

\* Peers that list themselves, each other and the node that asks.
CycleNetwork ==
    Network([NoPeers EXCEPT ![N1] = {N1, N2, Self}, ![N2] = {N1, N3}, ![N3] = {N1}],
            {N1, N2, N3, N4, N5}, {N1, N2, N3, N4, N5})

\* n1 lists n3, which does not answer, and n4, which answers but whose
\* health check fails.
FaultyNetwork ==
    Network([NoPeers EXCEPT ![N1] = {N3, N4}, ![N4] = {N5}],
            {N1, N2, N4}, {N1, N2})

Networks == {LineNetwork, CycleNetwork, FaultyNetwork}

\* The hop limit callers pass as maxDepth.
MaxHops == 3

\* At most MaxRuns calls of ExecuteCascadeDiscovery are in progress.
MaxRuns == 2

\* ExecuteCascadeDiscovery(MaxHops) is called while fewer than limit calls
\* are in progress.
CascadeStartBelow(limit) ==
    /\ proc = "running"
    /\ Len(cascades) < limit
    /\ \E net \in Networks :
        /\ cascades' = Append(cascades, CascadeBegin(net, peers, MaxHops))
        /\ last' = Done("cascade trigger", "",
                        [inProgress |-> Len(cascades), seeds |-> DOMAIN peers])
    /\ UNCHANGED <<blocks, currentHeight, miningPool, difficulty, powTargetBits,
                   db, now, proc, ioFaults, taskVars, peers, knownPeers, lockVars>>

CascadeStart == CascadeStartBelow(MaxRuns)

\* One round of the loop of a call in progress: all of toQuery are asked,
\* and what is new goes to the peer table and the next round.
CascadeHop ==
    /\ proc = "running"
    /\ \E i \in 1..Len(cascades) :
        LET run == cascades[i] IN
        /\ CascadeContinues(run)
        /\ cascades' = [cascades EXCEPT ![i] = CascadeRound(run, peers)]
        /\ peers' = AddPeers(peers, CascadeFound(run, peers), now)
        /\ knownPeers' = knownPeers \cup CascadeFound(run, peers)
    /\ UNCHANGED <<blocks, currentHeight, miningPool, difficulty, powTargetBits,
                   db, now, proc, ioFaults, taskVars, last, lockVars>>

\* A call in progress leaves its loop and returns.
CascadeEnd ==
    /\ proc = "running"
    /\ \E i \in 1..Len(cascades) :
        /\ ~CascadeContinues(cascades[i])
        /\ cascades' = SubSeq(cascades, 1, i - 1)
                          \o SubSeq(cascades, i + 1, Len(cascades))
        /\ last' = Done("ExecuteCascadeDiscovery", "", cascades[i])
    /\ UNCHANGED <<blocks, currentHeight, miningPool, difficulty, powTargetBits,
                   db, now, proc, ioFaults, taskVars, peers, knownPeers, lockVars>>

\* A trusted node of the configuration is registered (addTrustedNodes).
AddTrustedNode ==
    /\ proc = "running"
    /\ DOMAIN peers = {}
    /\ \E a \in {N1, N2} :
        /\ peers' = AddPeer(peers, a, now)
        /\ knownPeers' = knownPeers \cup {a}
        /\ last' = Done("AddPeer", "", [address |-> a])
    /\ UNCHANGED <<blocks, currentHeight, miningPool, difficulty, powTargetBits,
                   db, now, proc, ioFaults, taskVars, cascades, lockVars>>

CascadeNext ==
    \/ AddTrustedNode
    \/ CascadeStart
    \/ CascadeHop
    \/ CascadeEnd

CascadeSpec == Init /\ [][CascadeNext]_vars

\* One call of ExecuteCascadeDiscovery at a time, whose goroutine keeps
\* being scheduled.
CascadeStartAlone == CascadeStartBelow(1)

CascadeRunNext ==
    \/ AddTrustedNode
    \/ CascadeStartAlone
    \/ CascadeHop
    \/ CascadeEnd

CascadeRunSpec ==
    Init /\ [][CascadeRunNext]_vars /\ WF_vars(CascadeHop) /\ WF_vars(CascadeEnd)


\* Both identity verifiers on the same inquiry data.
InquiryStatuses == {"completed", "approved", "pending", "failed"}

\* Distances of created_at from the clock, around 24 hours back.
InquiryAges == {0, Day - 1, Day, Day + 1}

Inquiries(t) ==
    {[status |-> st, name_first |-> "Alice", name_last |-> ln, created_at |-> t - age] :
        st \in InquiryStatuses, ln \in {"Doe", "Roe"}, age \in InquiryAges}

VerifyBoth ==
    /\ \E inq \in Inquiries(now), name \in {"Alice", "Bob"}, surname \in {"Doe"} :
        last' = Done("VerifyIdentity", "",
                     [inq |-> inq, name |-> name, surname |-> surname, at |-> now,
                      live |-> VerifyInquiry(inq, name, surname, now),
                      mock |-> MockVerifyInquiry(inq, name, surname)])
    /\ UNCHANGED <<blocks, currentHeight, miningPool, difficulty, powTargetBits,
                   db, now, proc, ioFaults>>
    /\ UNCHANGED <<taskVars, netVars, lockVars>>

IdentityNext == VerifyBoth \/ Tick

IdentitySpec == Init /\ [][IdentityNext]_vars


\* The mining pool between submissions, blocks from peers and the two halves
\* of mineBlock (its candidate, and what becomes of it after Mine).
SubmitPooled == SubmitFrom({ReqBob, ReqCarol}, {TRUE})

\* The copy mineBlock takes of a pool of n entries, around maxTx.
PoolSizes == {MaxTxPerBlock - 1, MaxTxPerBlock, MaxTxPerBlock + 1}

CopyPool ==
    /\ \E n \in PoolSizes :
        last' = Done("copy pool", "", [n |-> n, got |-> CopyForMining([i \in 1..n |-> i])])
    /\ UNCHANGED <<blocks, currentHeight, miningPool, difficulty, powTargetBits,
                   db, now, proc, ioFaults>>
    /\ UNCHANGED <<taskVars, netVars, lockVars>>

PoolNext ==
    \/ AcceptLinkedBlock
    \/ SubmitPooled
    \/ MineBegin
    \/ MineEnd
    \/ CopyPool
    \/ Tick

PoolSpec == Init /\ [][PoolNext]_vars


\* The methods of Blockchain as goroutines run them side by side, one step
\* for each stretch between two lock operations.  A step that needs a lock
\* is enabled when the lock is free; a lock taken and released within one
\* stretch is not recorded in locks.

\* The locks the next step of goroutine g acquires.
WaitsFor(g) ==
    LET at == calls[g].at IN
    IF at \in {"AddBlock", "mineBlock.latest", "adjustDifficulty"} THEN {"mu"}
    ELSE IF at = "AddBlock.remove" THEN {"miningMu"}
    ELSE IF at = "AddTransaction.scan" THEN InquiryExistsLocks
    ELSE {}

CanStep(g) == \A l \in WaitsFor(g) : locks[l] = ""

Return(g) == [calls EXCEPT ![g] = Idle]

\* AddTransaction(tx) takes miningMu, validates and verifies the signature.
TxLock ==
    /\ proc = "running"
    /\ calls["submit"] = Idle
    /\ locks.miningMu = ""
    /\ \E r \in {ReqAlice, ReqBob} :
        LET tx  == SubmittedTx(r, now)
            err == IF TxValidate(tx, now) # "" THEN TxValidate(tx, now)
                   ELSE IF VerifySignature(tx) # "" THEN "invalid signature"
                   ELSE ""
        IN  IF err # ""
            THEN /\ last' = Done("AddTransaction", err, [tx |-> tx])
                 /\ UNCHANGED lockVars
            ELSE /\ locks' = [locks EXCEPT !.miningMu = "submit"]
                 /\ calls' = [calls EXCEPT !["submit"] =
                                 [at |-> "AddTransaction.scan", tx |-> tx]]
                 /\ last' = last
    /\ UNCHANGED <<blocks, currentHeight, miningPool, difficulty, powTargetBits,
                   db, now, proc, ioFaults, taskVars, netVars>>

\* inquiryExists reads the block list.
TxScanChain ==
    /\ proc = "running"
    /\ calls["submit"].at = "AddTransaction.scan"
    /\ CanStep("submit")
    /\ calls' = [calls EXCEPT !["submit"] =
                    [at |-> "AddTransaction.insert", tx |-> calls["submit"].tx,
                     inChain |-> InquiryExists(blocks, <<>>, calls["submit"].tx.inquiry_id),
                     chainSeen |-> blocks]]
    /\ UNCHANGED <<blocks, currentHeight, miningPool, difficulty, powTargetBits,
                   db, now, proc, ioFaults, last, taskVars, netVars, locks>>

\* inquiryExists reads the pool; AddTransaction compares the pooled IDs,
\* appends and releases miningMu.
TxInsert ==
    /\ proc = "running"
    /\ calls["submit"].at = "AddTransaction.insert"
    /\ LET c   == calls["submit"]
           err == IF c.inChain \/ InquiryExists(<<>>, miningPool, c.tx.inquiry_id)
                  THEN "inquiry ID already exists"
                  ELSE IF \E i \in 1..Len(miningPool) : miningPool[i].id = c.tx.id
                  THEN "transaction already in pool"
                  ELSE ""
       IN  /\ miningPool' = IF err = "" THEN Append(miningPool, c.tx) ELSE miningPool
           /\ last' = Done("AddTransaction", err,
                           [tx |-> c.tx, inChain |-> c.inChain, chainSeen |-> c.chainSeen])
    /\ locks' = [locks EXCEPT !.miningMu = ""]
    /\ calls' = Return("submit")
    /\ UNCHANGED <<blocks, currentHeight, difficulty, powTargetBits,
                   db, now, proc, ioFaults, taskVars, netVars>>

\* A block from a peer reaches its handler, which calls AddBlock.
PeerReceives ==
    /\ proc = "running"
    /\ calls["peer"] = Idle
    /\ calls' = [calls EXCEPT !["peer"] =
                    [at |-> "AddBlock", block |-> WindowBlock(blocks), src |-> "peer"]]
    /\ UNCHANGED <<blocks, currentHeight, miningPool, difficulty, powTargetBits,
                   db, now, proc, ioFaults, last, taskVars, netVars, locks>>

\* Where g goes on after its AddBlock has returned err.
AfterAddBlock(g, err) ==
    IF g = "miner" /\ err = "" /\ calls[g].block.header.height % RetargetWindow = 0
    THEN [at |-> "adjustDifficulty"]
    ELSE Idle

\* AddBlock takes mu, runs its checks and appends.
AddBlockLock(g) ==
    /\ proc = "running"
    /\ calls[g].at = "AddBlock"
    /\ CanStep(g)
    /\ LET b   == calls[g].block
           err == AddBlockChecks(blocks, powTargetBits, b, now)
       IN  IF err # ""
           THEN /\ last' = Done("AddBlock", err, BlockArg(calls[g].src, b, FALSE))
                /\ calls' = [calls EXCEPT ![g] = AfterAddBlock(g, err)]
                /\ UNCHANGED <<blocks, currentHeight, locks>>
           ELSE /\ Len(blocks) < MaxBlocks
                /\ blocks' = Append(blocks, b)
                /\ currentHeight' = b.header.height
                /\ locks' = [locks EXCEPT !.mu = g]
                /\ calls' = [calls EXCEPT ![g].at = "AddBlock.save"]
                /\ last' = last
    /\ UNCHANGED <<miningPool, difficulty, powTargetBits, db, now, proc, ioFaults,
                   taskVars, netVars>>

\* db.SaveBlock: on its error the block is taken off again and AddBlock
\* returns; otherwise the certifications are written.
AddBlockSave(g) ==
    /\ proc = "running"
    /\ calls[g].at = "AddBlock.save"
    /\ LET b == calls[g].block IN
       \E saveFails \in IF ioFaults < MaxFaults THEN BOOLEAN ELSE {FALSE} :
        IF saveFails
        THEN /\ blocks' = SubSeq(blocks, 1, Len(blocks) - 1)
             /\ currentHeight' = DecUint64(currentHeight)
             /\ ioFaults' = ioFaults + 1
             /\ locks' = [locks EXCEPT !.mu = ""]
             /\ calls' = [calls EXCEPT ![g] = AfterAddBlock(g, "failed to save block")]
             /\ last' = Done("AddBlock", "failed to save block",
                             BlockArg(calls[g].src, b, TRUE))
             /\ db' = db
        ELSE /\ db' = SaveCerts(SaveBlock(db, b), b, 1, {})
             /\ calls' = [calls EXCEPT ![g].at = "AddBlock.remove"]
             /\ UNCHANGED <<blocks, currentHeight, ioFaults, locks, last>>
    /\ UNCHANGED <<miningPool, difficulty, powTargetBits, now, proc,
                   taskVars, netVars>>

\* removeMinedTransactions takes miningMu; AddBlock returns and releases mu.
AddBlockRemove(g) ==
    /\ proc = "running"
    /\ calls[g].at = "AddBlock.remove"
    /\ CanStep(g)
    /\ miningPool' = RemoveMinedTransactions(miningPool, calls[g].block.transactions)
    /\ locks' = [locks EXCEPT !.mu = ""]
    /\ calls' = [calls EXCEPT ![g] = AfterAddBlock(g, "")]
    /\ last' = Done("AddBlock", "", BlockArg(calls[g].src, calls[g].block, FALSE))
    /\ UNCHANGED <<blocks, currentHeight, difficulty, powTargetBits, db, now, proc,
                   ioFaults, taskVars, netVars>>

AddBlockStep == \E g \in {"peer", "miner"} :
    AddBlockLock(g) \/ AddBlockSave(g) \/ AddBlockRemove(g)

\* A mining tick: GetMiningPool and mineBlock's copy, under miningMu.
MinerCopy ==
    /\ proc = "running"
    /\ calls["miner"] = Idle
    /\ locks.miningMu = ""
    /\ Len(miningPool) > 0
    /\ Len(blocks) < MaxBlocks
    /\ calls' = [calls EXCEPT !["miner"] =
                    [at |-> "mineBlock.latest", txs |-> CopyForMining(miningPool)]]
    /\ UNCHANGED <<blocks, currentHeight, miningPool, difficulty, powTargetBits,
                   db, now, proc, ioFaults, last, taskVars, netVars, locks>>

\* GetLatestBlock under mu, NewBlock and Mine.  On a chain without blocks
\* GetLatestBlock returns nil and latestBlock.Hash() panics, which ends the
\* process.
MinerBuild ==
    /\ calls["miner"].at = "mineBlock.latest"
    /\ proc = "running"
    /\ CanStep("miner")
    /\ IF Len(blocks) = 0
       THEN /\ proc' = "exited"
            /\ last' = Done("mineBlock", "panic: nil pointer dereference", <<>>)
            /\ calls' = calls
       ELSE /\ LET b == MineCandidate(blocks, calls["miner"].txs, difficulty, now) IN
               calls' = [calls EXCEPT !["miner"] =
                            IF PowMine(powTargetBits, b)
                            THEN [at |-> "AddBlock", block |-> b, src |-> "mined"]
                            ELSE Idle]
            /\ UNCHANGED <<proc, last>>
    /\ UNCHANGED <<blocks, currentHeight, miningPool, difficulty, powTargetBits,
                   db, now, ioFaults, taskVars, netVars, locks>>

\* adjustDifficulty takes mu, writes its log line and releases mu.
MinerAdjust ==
    /\ proc = "running"
    /\ calls["miner"].at = "adjustDifficulty"
    /\ CanStep("miner")
    /\ difficulty' = AdjustDifficulty(difficulty)
    /\ calls' = Return("miner")
    /\ last' = Done("adjustDifficulty", "", <<>>)
    /\ UNCHANGED <<blocks, currentHeight, miningPool, powTargetBits,
                   db, now, proc, ioFaults, taskVars, netVars, locks>>

\* A query reads the chain with mu taken for reading, which waits for a
\* writer.
QueryChain ==
    /\ proc = "running"
    /\ locks.mu = ""
    /\ last' = Done("GetLatestBlock", "", [tip |-> TipHash(blocks)])
    /\ UNCHANGED <<blocks, currentHeight, miningPool, difficulty, powTargetBits,
                   db, now, proc, ioFaults, taskVars, netVars, lockVars>>

LockNext ==
    \/ QueryChain
    \/ TxLock
    \/ TxScanChain
    \/ TxInsert
    \/ PeerReceives
    \/ AddBlockStep
    \/ MinerCopy
    \/ MinerBuild
    \/ MinerAdjust

LockSpec == Init /\ [][LockNext]_vars


\* Certification lookups on a node that is handed a block around Bob's
\* transaction, is sent Alice's two submissions and mines.
AcceptBobBlock == AddBlockFrom({LinkedBobBlock(blocks)})

SubmitAliceTwice == SubmitFrom({ReqAlice, ReqAlice4, ReqColon}, {TRUE})

\* What clients ask for: the key and the names of a submission, and a pair
\* of names split at another ':'.
Queries ==
    {[public_key |-> r.public_key, name |-> r.name, surname |-> r.surname] :
        r \in {ReqAlice, ReqBob, ReqColon}}
    \cup {[public_key |-> "pkC", name |-> "Ann", surname |-> "Lee:Poe"]}

\* A query by public key or by identity is answered.
QueryCertification ==
    /\ proc = "running"
    /\ \E q \in Queries :
        last' = Done("query", "",
                     [q  |-> q,
                      pk |-> GetCertificationByPublicKey(blocks, db, q.public_key),
                      id |-> GetCertificationByIdentity(blocks, db, q.name, q.surname)])
    /\ UNCHANGED <<blocks, currentHeight, miningPool, difficulty, powTargetBits,
                   db, now, proc, ioFaults, taskVars, netVars, lockVars>>

LookupNext ==
    \/ AcceptBobBlock
    \/ SubmitAliceTwice
    \/ Mine
    \/ QueryCertification
    \/ Tick

LookupSpec == Init /\ [][LookupNext]_vars


\* Two nodes, each started on an empty store some seconds ago, build their
\* genesis blocks; the first of them then builds block 1 on its own.
GenesisAges == 0..9

StartTwoNodes ==
    /\ \E dA \in GenesisAges, dB \in GenesisAges :
        LET a == GenesisBlock(now - dA)
            b == GenesisBlock(now - dB)
        IN  last' = Done("GenesisBlock", "",
                         [a |-> a, b |-> b,
                          block1 |-> MineCandidate(<<a>>, <<SubmittedTx(ReqAlice, now)>>,
                                                   difficulty, now)])
    /\ UNCHANGED <<blocks, currentHeight, miningPool, difficulty, powTargetBits,
                   db, now, proc, ioFaults, taskVars, netVars, lockVars>>

GenesisNext == StartTwoNodes \/ Tick

GenesisSpec == Init /\ [][GenesisNext]_vars


\* Periodic discovery.  discoverPeers asks every peer of the table for its
\* peers (queryPeerForNodes); an address of an answer is registered when it
\* is not a known peer yet.
DiscoverPeers ==
    /\ proc = "running"
    /\ DOMAIN peers # {}
    /\ \E net \in Networks :
        LET answered == DOMAIN peers \cap net.up
            heard    == UNION {net.lists[a] : a \in answered}
            new      == heard \ knownPeers
        IN  /\ peers' = AddPeers(peers, new, now)
            /\ knownPeers' = knownPeers \cup new
            /\ last' = Done("discoverPeers", "",
                            [answered |-> answered, heard |-> heard, at |-> now])
    /\ UNCHANGED <<blocks, currentHeight, miningPool, difficulty, powTargetBits,
                   db, now, proc, ioFaults, taskVars, cascades, lockVars>>

DiscoveryNext ==
    \/ AddTrustedNode
    \/ DiscoverPeers
    \/ MaintainPeers
    \/ Elapse

DiscoverySpec == Init /\ [][DiscoveryNext]_vars


\* Health check.  setupRoutes registers handleHealthCheck for GET on
\* "/health" of the "/api/v1" subrouter; the two legacy routes are outside
\* of it.
GetRoutes ==
    { [path |-> "/peers",         handler |-> "handleGetPeersLegacy"],
      [path |-> "/api/v1/blocks", handler |-> "handleGetBlocks"],
      [path |-> "/api/v1/peers",  handler |-> "handleGetPeers"],
      [path |-> "/api/v1/health", handler |-> "handleHealthCheck"] }

HandleHealthCheck(chain, height, table, networkID, t) ==
    [ status     |-> "healthy",
      blockchain |-> [ height      |-> height,
                       latest_hash |-> IF GetLatestBlock(chain) # <<>>
                                       THEN BlockHash(GetLatestBlock(chain))
                                       ELSE "" ],
      network    |-> [ peer_count |-> Cardinality(DOMAIN table),
                       network_id |-> networkID ],
      timestamp  |-> t ]

\* The answer of the node to GET path: the body of the health handler on its
\* route, the router's 404 on a path no route has.
ServeGet(path, chain, height, table, networkID, t) ==
    IF \E r \in GetRoutes : r.path = path
    THEN LET r == CHOOSE x \in GetRoutes : x.path = path
         IN  [ ok   |-> TRUE,
               data |-> IF r.handler = "handleHealthCheck"
                        THEN HandleHealthCheck(chain, height, table, networkID, t)
                        ELSE [handler |-> r.handler] ]
    ELSE [ok |-> FALSE, data |-> [error |-> "404 page not found"]]

\* The URL validateNode builds for a node address.
ValidateURL == "/health"

\* validateNode: response.ok, data.status === 'ok' and data.networkFlag equal
\* to the validator's flag; a field the body lacks is undefined.
ValidateNode(response, networkFlag) ==
    /\ response.ok
    /\ "status" \in DOMAIN response.data
    /\ response.data.status = "ok"
    /\ "networkFlag" \in DOMAIN response.data
    /\ response.data.networkFlag = networkFlag

\* The flag both participants are configured with.
Flags == {"CERTIFICATION-BLOCKCHAIN-CLS", "CertificationBlockchain"}

\* A participant with the flag of the node validates the node.
ValidateHealth ==
    /\ proc = "running"
    /\ \E flag \in Flags :
        LET response == ServeGet(ValidateURL, blocks, currentHeight, peers, flag, now)
        IN  last' = Done("validateNode", "",
                         [flag |-> flag, response |-> response,
                          valid |-> ValidateNode(response, flag)])
    /\ UNCHANGED <<blocks, currentHeight, miningPool, difficulty, powTargetBits,
                   db, now, proc, ioFaults, taskVars, netVars, lockVars>>

HealthNext ==
    \/ AcceptLinkedBlock
    \/ AddTrustedNode
    \/ ValidateHealth
    \/ Tick

HealthSpec == Init /\ [][HealthNext]_vars

-----------------------------------------------------------------------------
(* Properties *)

\* The transactions of the accepted chain, as <<block index, position>>.
ChainTxs == { <<i, j>> \in (1..Len(blocks)) \X (1..MaxTxPerBlock) :
                j <= Len(blocks[i].transactions) }

Tip == blocks[Len(blocks)]

\* C1: every accepted block b with a height above 0 names as its previous
\* block hash the hash of the accepted block at height b.height - 1, and its
\* height is that block's height plus 1.
C1_Linked ==
    \A i \in 1..Len(blocks) :
        blocks[i].header.height > 0 =>
            \E k \in 1..Len(blocks) :
                /\ blocks[k].header.height + 1 = blocks[i].header.height
                /\ blocks[i].header.prev_block_hash = BlockHash(blocks[k])

\* C2: no inquiry id occurs in more than one transaction of the accepted
\* chain, whichever way its blocks came in.
C2_InquiryOnce ==
    \A p, q \in ChainTxs :
        p # q => blocks[p[1]].transactions[p[2]].inquiry_id
                 # blocks[q[1]].transactions[q[2]].inquiry_id

\* C3: no pooled transaction carries an inquiry id that occurs in the
\* accepted chain; after a block is accepted no pooled transaction, whatever
\* its id, carries an inquiry id of that block.
C3_PoolDisjoint ==
    \A n \in 1..Len(miningPool) : \A p \in ChainTxs :
        miningPool[n].inquiry_id # blocks[p[1]].transactions[p[2]].inquiry_id

\* C4: the hash of every accepted block, read as a number, lies below the
\* target of the bits field of the block's own header.
C4_OwnTarget ==
    \A i \in 1..Len(blocks) : PowValidate(blocks[i].header.bits, blocks[i])

\* C5: every accepted block has at least one transaction and a stored Merkle
\* root equal to the root recomputed from its transactions; AddBlock rejects
\* a block without transactions or with another root and leaves the chain,
\* the height, the pool and the store as they were.
C5_BodyAndRoot ==
    /\ [](\A i \in 1..Len(blocks) :
            /\ Len(blocks[i].transactions) > 0
            /\ blocks[i].header.merkle_root
                 = CalculateMerkleRoot(blocks[i].transactions))
    /\ [][(last'.op = "AddBlock" /\ (last'.arg.emptyBody \/ ~last'.arg.rootOk))
            => /\ last'.err # ""
               /\ UNCHANGED <<blocks, currentHeight, miningPool, db>>]_vars

\* C5 case: on a chain that holds a block, AddBlock has turned down a block
\* whose Merkle root is not the root of its transactions.
C5_Witness ==
    /\ Len(blocks) > 0
    /\ last.op = "AddBlock"
    /\ last.arg.src = "peer"
    /\ ~last.arg.rootOk
    /\ last.err = "invalid block: invalid merkle root"

\* C6: the number of blocks is the tip's height plus 1, and the reported
\* height (GetHeight) is the header height of the last block.
C6_HeightMatches ==
    Len(blocks) > 0 =>
        /\ Len(blocks) = Tip.header.height + 1
        /\ currentHeight = Tip.header.height

\* C7: a start over a store without a persisted chain, with no write
\* failing, has the genesis block pass AddBlock: NewBlockchain succeeds and
\* leaves exactly one block, at height 0.
C7_GenesisAccepted ==
    (last.op = "NewBlockchain" /\ ~last.arg.stored /\ ~last.arg.saveFails)
        => /\ last.err = ""
           /\ Len(blocks) = 1
           /\ blocks[1].header.height = 0
           /\ blocks[1].header.prev_block_hash = "0"

\* C8: a start over a store that holds blocks up to height h restores them
\* and makes no other genesis block.
C8_ChainRestored ==
    (last.op = "NewBlockchain" /\ last.arg.stored)
        => /\ last.err = ""
           /\ Len(blocks) > 0
           /\ ToString(Tip.header.height) = db.meta["blockchain:height"]
           /\ \A i \in 1..Len(blocks) :
                ("block:hash:" \o BlockHash(blocks[i])) \in DOMAIN db.blocks

\* C9: a transaction enters the pool only through a submission whose static
\* validation passed, whose signature verified and for which the verifier
\* returned verified = true; a submission that fails makes no pool entry and
\* changes neither the chain nor the store.
C9_PoolOnlyVerified ==
    [][/\ \A n \in 1..Len(miningPool') :
            (\A m \in 1..Len(miningPool) : miningPool[m] # miningPool'[n])
                => /\ last'.op = "submit"
                   /\ last'.arg.tx = miningPool'[n]
                   /\ TxValidate(miningPool'[n], now) = ""
                   /\ VerifySignature(miningPool'[n]) = ""
                   /\ last'.arg.verifierCalled
                   /\ last'.arg.verified
       /\ (last'.op = "submit" /\ last'.arg.http # 200)
            => UNCHANGED <<blocks, currentHeight, miningPool, db>>
       /\ (last'.op = "submit" /\ last'.arg.http = 200)
            => /\ miningPool' = Append(miningPool, last'.arg.tx)
               /\ UNCHANGED <<blocks, currentHeight, db>>]_vars

\* C9 case: a submission has been pooled on top of an earlier one, on a
\* chain that holds a block.
C9_Witness ==
    /\ last.op = "submit"
    /\ last.arg.http = 200
    /\ last.arg.verified
    /\ Len(miningPool) = 2
    /\ miningPool[2] = last.arg.tx
    /\ Len(blocks) > 0

\* C10: the verifier is called only for a submission that passed static
\* validation and signature verification; for a submission with a bad
\* signature it is not called.
C10_VerifierAfterChecks ==
    last.op = "submit" =>
        /\ last.arg.verifierCalled
             => /\ TxValidate(last.arg.tx, now) = ""
                /\ VerifySignature(last.arg.tx) = ""
        /\ VerifySignature(last.arg.tx) # "" => ~last.arg.verifierCalled

\* C10 case: a statically valid submission with a bad signature has been
\* answered 400 without a call of the verifier.
C10_Witness ==
    /\ last.op = "submit"
    /\ TxValidate(last.arg.tx, now) = ""
    /\ VerifySignature(last.arg.tx) # ""
    /\ last.arg.http = 400
    /\ ~last.arg.verifierCalled

\* Whether a transaction of the accepted chain carries inquiryID.
InChain(inquiryID) ==
    \E p \in ChainTxs : blocks[p[1]].transactions[p[2]].inquiry_id = inquiryID

\* C11: a submission that passes the handler's checks and the verifier, and
\* whose inquiry id is recorded in an accepted block, is answered with
\* HTTP 409.
C11_Conflict409 ==
    (/\ last.op = "submit"
     /\ last.arg.verified
     /\ InChain(last.arg.tx.inquiry_id))
        => last.arg.http = 409

C13_StoreFailureRollsBack ==
    [][(last'.op = "AddBlock" /\ last'.arg.saveFails)
         => /\ last'.err # ""
            /\ UNCHANGED <<blocks, currentHeight, miningPool, db>>]_vars

\* Whether tx is in the pool / in a block of the accepted chain.
Pooled(tx) == \E n \in 1..Len(miningPool) : miningPool[n] = tx

Mined(tx) == \E p \in ChainTxs : blocks[p[1]].transactions[p[2]] = tx

\* C14: with mining ticks that keep firing, every transaction pooled on a
\* chain that holds a block is eventually in an accepted block and out of the
\* pool, unless the chain reaches MaxBlocks first.
C14_EventuallyMined ==
    \A r \in {ReqAlice, ReqBob} :
        (Pooled(SubmittedTx(r, T0)) /\ Len(blocks) > 0)
            ~> \/ Mined(SubmittedTx(r, T0)) /\ ~Pooled(SubmittedTx(r, T0))
               \/ Len(blocks) >= MaxBlocks

\* C15: on every chain that holds a block, GET /api/v1/blocks/latest answers
\* 200 with the tip, the accepted block of greatest height.
C15_LatestIsTip ==
    Len(blocks) > 0 =>
        /\ ServeBlock(blocks, "latest").status = 200
        /\ \A i \in 1..Len(blocks) :
             blocks[i].header.height
                <= ServeBlock(blocks, "latest").body.header.height

\* Blockchain.GetHeight.
GetHeight == currentHeight

\* C16: as long as the process runs, the height GetHeight reports never goes
\* down, whether AddBlock appends, turns a block down or rolls back.
C16_HeightMonotone ==
    [][last'.op # "NewBlockchain" => LeqUint64(GetHeight, GetHeight')]_vars

\* The three index keys SaveCertification writes for a transaction.
IndexKeys(tx) ==
    { "cert:pk:" \o tx.public_key,
      "cert:id:" \o tx.name \o ":" \o tx.surname,
      "cert:inq:" \o tx.inquiry_id }

\* Whether the transaction at q was accepted after the one at p.
Younger(q, p) == q[1] > p[1] \/ (q[1] = p[1] /\ q[2] > p[2])

\* C17: every accepted transaction has an entry under each of its three
\* index keys, and the entry under a key is the projection of the youngest
\* accepted transaction with that key.
C17_IndexesFollowChain ==
    \A p \in ChainTxs :
        LET tx == blocks[p[1]].transactions[p[2]] IN
        \A key \in IndexKeys(tx) :
            /\ key \in DOMAIN db.certs
            /\ (\A q \in ChainTxs :
                  key \in IndexKeys(blocks[q[1]].transactions[q[2]])
                      => ~Younger(q, p))
                 => db.certs[key] = CertOf(tx, blocks[p[1]])

\* A chain whose heights run from 0 and whose blocks name their predecessor.
ValidChain(chain) ==
    \A i \in 1..Len(chain) :
        /\ chain[i].header.height = i - 1
        /\ i > 1 => chain[i].header.prev_block_hash = BlockHash(chain[i - 1])

\* C18: a sync against a reachable peer whose chain is valid and strictly
\* higher fetches the blocks above the local height in ascending order, and
\* ends with the local height at the peer's height and every local block
\* equal to the peer's block of the same height.
C18_SyncCatchesUp ==
    (/\ last.op = "SyncBlockchain"
     /\ last.arg.reachable
     /\ ValidChain(last.arg.peer)
     /\ Len(blocks) > 0
     /\ last.arg.localHeight = Len(blocks) - 1
     /\ Len(last.arg.peer) - 1 > last.arg.localHeight)
        => /\ last.err = ""
           /\ last.arg.fetched
                = SubSeq(last.arg.peer, last.arg.localHeight + 2, Len(last.arg.peer))
           /\ GetHeight = Len(last.arg.peer) - 1
           /\ \A i \in 1..Len(last.arg.peer) :
                GetBlock(blocks, i - 1).block = last.arg.peer[i]


\* The wall time between the first and the last block the node holds.
WindowActual(chain) ==
    chain[Len(chain)].header.timestamp - chain[1].header.timestamp

\* C19: whenever a block whose height is a multiple of the retarget window
\* (above 0) is accepted, the difficulty bits used for mining and for
\* validation afterwards are the old bits plus 1 if the window took less
\* than half the expected time, minus 1 if it took more than twice the
\* expected time, unchanged otherwise, kept within 1..32.
C19_Retarget ==
    [][(/\ last'.op = "AddBlock" /\ last'.err = ""
        /\ Len(blocks') = Len(blocks) + 1
        /\ blocks'[Len(blocks')].header.height > 0
        /\ blocks'[Len(blocks')].header.height % RetargetWindow = 0)
          => LET bits == CalculateDifficulty(difficulty, WindowActual(blocks'),
                                            TargetBlockTime * RetargetWindow)
             IN  difficulty' = bits /\ powTargetBits' = bits]_vars

\* The nonces 0 .. n in ascending order.
NonceRange(n) == [i \in 1..(n + 1) |-> i - 1]

\* C20: when no nonce meets the target, Mine runs one round for every nonce
\* from 0 up to and including the largest value of the counter, returns
\* false, and the mining tick leaves the chain and the store as they were.
C20_NonceExhaustion ==
    [][last'.op = "mineBlock"
          => /\ last'.arg.tried = NonceRange(MaxNonce)
             /\ blocks' = blocks /\ currentHeight' = currentHeight
             /\ db' = db]_vars


\* C21: Validate accepts a transaction dated exactly 24 hours before the
\* node's clock and turns down one dated a second earlier; it accepts one
\* dated five minutes after the clock and turns down every later one.
C21_AgeBoundaries ==
    (last.op = "Validate" /\ last.arg.blank = "none") =>
        LET dt == last.arg.tx.datetime IN
        /\ dt = now - Day => last.err = ""
        /\ dt = now - Day - 1 => last.err = "transaction datetime is too old"
        /\ dt = now + FiveMinutes => last.err = ""
        /\ dt > now + FiveMinutes
              => last.err = "transaction datetime is in the future"

C21_Witness ==
    /\ last.op = "Validate" /\ last.arg.blank = "none"
    /\ last.arg.tx.datetime = now - Day
    /\ now > T0
    /\ last.err = ""



\* C22: for every block with exactly one transaction, the genesis block and
\* blocks decoded from a peer's JSON among them, the Merkle root computed is
\* the id the transaction carries.
C22_SingleTxRoot ==
    last.op = "CalculateMerkleRoot" => last.arg.root = last.arg.tx.id

\* C23: for every transaction that passes Validate, whatever its fields hold
\* and also with an empty status, DeserializeTransaction of its Serialize
\* bytes succeeds and gives back the transaction's id, public key, name,
\* surname, inquiry id, datetime in seconds, signature and status.
C23_RoundTrip ==
    (last.op = "RoundTrip" /\ last.arg.valid) =>
        last.err = "" /\ last.arg.back = last.arg.tx


\* C24: once the root context is cancelled, no step of the mining task
\* accepts, persists or indexes a block: a search in progress is given up.
C24_NoBlockAfterCancel ==
    [][(ctxDone /\ miner' # miner)
          => /\ blocks' = blocks /\ currentHeight' = currentHeight
             /\ db' = db]_vars


\* Whether a datagram carries the configured flag: a JSON message with that
\* flag and the type client_discovery, or the flag as plain text.
CarriesFlag(d) ==
    \/ d.json /\ d.flag = ConfigFlag /\ d.type = "client_discovery"
    \/ ~d.json /\ d.text = ConfigFlag

\* C25: a UDP listener answers no datagram but one that carries the
\* configured flag; every other datagram gets no response and leaves the
\* peer table as it was.
C25_FlagAdmission ==
    (last.op = "udp" /\ ~CarriesFlag(last.arg.datagram)) =>
        last.arg.response = "" /\ peers = last.arg.before

C25_Witness ==
    /\ last.op = "udp" /\ last.arg.listener = "server"
    /\ last.arg.datagram = JsonDatagram("OTHER-NETWORK", "client_discovery")
    /\ last.arg.response = ""
    /\ DOMAIN peers # {}

\* C26: right after a sweep of the peer maintenance the table holds no
\* entry last seen more than PeerTTL ago, and every entry last seen within
\* PeerTTL is still there, unchanged.
C26_SweepKeepsFresh ==
    last.op = "maintainPeers" =>
        /\ \A a \in DOMAIN peers : now - peers[a].last_seen <= PeerTTL
        /\ \A a \in DOMAIN last.arg.before :
              now - last.arg.before[a].last_seen <= PeerTTL
                  => a \in DOMAIN peers /\ peers[a] = last.arg.before[a]

C26_Witness ==
    /\ last.op = "maintainPeers"
    /\ \E a \in DOMAIN last.arg.before : a \notin DOMAIN peers
    /\ \E a \in DOMAIN peers : now - peers[a].last_seen = PeerTTL


\* C27: a cascade trigger that arrives while a cascade run is in progress
\* starts nothing, so that at most one run executes at any time.
C27_SingleFlight == Len(cascades) <= 1


RECURSIVE ReachWithin(_, _, _)
\* The addresses reached from seeds through at most k successive answers
\* to GET /api/v1/peers in the network net.
ReachWithin(net, seeds, k) ==
    IF k = 0 THEN seeds
    ELSE LET r == ReachWithin(net, seeds, k - 1)
         IN  r \cup UNION {net.lists[a] : a \in r \cap DOMAIN net.lists}

\* Whether every address of the network answers.
AllRespond(net) == net.up = DOMAIN net.lists /\ net.healthy = DOMAIN net.lists

\* C28: when a cascade run with MaxHops = 3 has completed in a network
\* whose peers all respond, every address reached from the seeds through at
\* most 3 successive /peers answers is in the peer table.
C28_ReachableFound ==
    (/\ last.op = "ExecuteCascadeDiscovery" /\ last.arg.maxDepth = MaxHops
     /\ AllRespond(last.arg.net))
        => ReachWithin(last.arg.net, last.arg.seeds, MaxHops) \subseteq DOMAIN peers

C28_Witness ==
    /\ last.op = "ExecuteCascadeDiscovery" /\ last.arg.net = LineNetwork
    /\ last.arg.seeds = {N1}
    /\ last.arg.depth = MaxHops
    /\ {N1, N2, N3, N4} \subseteq DOMAIN peers


\* A call of ExecuteCascadeDiscovery has made at most maxDepth rounds, and
\* none after a round that found nothing new.
HopsBounded(run) ==
    /\ run.depth <= run.maxDepth
    /\ Len(run.queried) = run.depth
    /\ \A k \in 1..Len(run.added) :
          run.added[k] = {} => k = Len(run.added) /\ ~CascadeContinues(run)

\* C29: every cascade run terminates; it makes at most MaxHops hops and
\* stops after the first hop that adds no new peer, also when peers list
\* each other in cycles, themselves or the node that asks.
C29_CascadeTerminates ==
    /\ [](/\ \A i \in 1..Len(cascades) : HopsBounded(cascades[i])
          /\ last.op = "ExecuteCascadeDiscovery" => HopsBounded(last.arg))
    /\ (cascades # <<>>) ~> (cascades = <<>>)

C29_Witness ==
    /\ last.op = "ExecuteCascadeDiscovery" /\ last.arg.net = CycleNetwork
    /\ cascades = <<>>
    /\ Len(last.arg.added) > 0
    /\ last.arg.added[Len(last.arg.added)] = {}
    /\ Self \in DOMAIN peers


\* The addresses a call of ExecuteCascadeDiscovery has added to the peer
\* table and to its next frontier.
CascadeAdded(run) == UNION {run.added[k] : k \in 1..Len(run.added)}

\* The addresses that answer a health request of the run with a healthy
\* status and the network flag; the running node itself is one of them.
PassValidation(net) == (net.up \cap net.healthy) \cup {Self}

\* C30: every address that a cascade run adds to the peer table or to its
\* next frontier passed the health validation of that run; an address that
\* fails it, or does not answer, is never added.
C30_OnlyValidatedAdded ==
    /\ \A i \in 1..Len(cascades) :
          CascadeAdded(cascades[i]) \subseteq PassValidation(cascades[i].net)
    /\ last.op = "ExecuteCascadeDiscovery"
          => CascadeAdded(last.arg) \subseteq PassValidation(last.arg.net)


\* The verdict the policy asks for: a completed or approved inquiry with the
\* expected names, at most 24 hours old.
PolicyVerified(inq, name, surname, t) ==
    /\ inq.status \in {"completed", "approved"}
    /\ inq.name_first = name /\ inq.name_last = surname
    /\ t - inq.created_at <= Day

\* C31: the live verifier and the mock both report verified exactly when the
\* status is completed or approved, the names are the expected ones and the
\* inquiry is at most 24 hours old; so both give the same verdict.
C31_SameVerdict ==
    last.op = "VerifyIdentity" =>
        LET a == last.arg
            want == PolicyVerified(a.inq, a.name, a.surname, a.at)
        IN  /\ a.live.verified = want
            /\ a.mock.verified = want


\* The entries of pool that are none of txs, in the order of pool.
Without(pool, txs) ==
    SelectSeq(pool, LAMBDA p : \A i \in 1..Len(txs) : p # txs[i])

\* C32: on a mining tick with a non-empty pool the candidate holds the first
\* min(|pool|, MaxTxPerBlock) pooled transactions in pool order, on top of
\* the tip; once it is accepted exactly those leave the pool and the others,
\* the ones pooled during mining included, keep their order.
C32_CandidateAndRemoval ==
    /\ [](last.op = "copy pool" =>
            /\ Len(last.arg.got) = Min(last.arg.n, MaxTxPerBlock)
            /\ \A i \in 1..Len(last.arg.got) : last.arg.got[i] = i)
    /\ [][/\ (miner.at = "select" /\ miner'.at = "Mine") =>
              /\ miner'.block.transactions
                    = SubSeq(miningPool, 1, Min(Len(miningPool), MaxTxPerBlock))
              /\ miner'.block.header.height = blocks[Len(blocks)].header.height + 1
              /\ miner'.block.header.prev_block_hash = BlockHash(blocks[Len(blocks)])
          /\ (/\ miner.at = "Mine" /\ miner'.at = "select"
              /\ last'.op = "AddBlock" /\ last'.err = "") =>
              /\ blocks' = Append(blocks, miner.block)
              /\ miningPool' = Without(miningPool, miner.block.transactions)]_vars

C32_Witness ==
    /\ last.op = "AddBlock" /\ last.err = "" /\ last.arg.src = "mined"
    /\ Len(blocks[Len(blocks)].transactions) = 1
    /\ Len(miningPool) = 1
    /\ miner.at = "select"


\* C33: add_transaction is atomic with respect to accept_block: between its
\* look at the chain for the inquiry and its insertion into the pool no
\* block is appended or taken off again, so what it pools is still absent
\* from the chain.
C33_CheckAndInsertAtomic ==
    [][(calls["submit"].at = "AddTransaction.insert" /\ calls'["submit"] = Idle) =>
         /\ calls["submit"].chainSeen = blocks
         /\ last'.err = "" => ~InquiryExists(blocks, <<>>, last'.arg.tx.inquiry_id)]_vars


\* Some goroutine is inside a Blockchain method.
InProgress == {g \in Goroutines : calls[g] # Idle}

\* C38: concurrent add_transaction, mining ticks, accept_block and
\* difficulty adjustment never deadlock: while the node runs some call in
\* progress can take its next step; no goroutine that holds miningMu goes
\* on to take mu, and none takes a lock it holds.
C38_NoDeadlock ==
    proc = "running" =>
        /\ InProgress # {} => \E g \in InProgress : CanStep(g)
        /\ \A g \in Goroutines :
              /\ locks.miningMu = g => "mu" \notin WaitsFor(g)
              /\ \A l \in WaitsFor(g) : locks[l] # g

C38_Witness ==
    /\ locks.mu = "peer" /\ locks.miningMu = "submit"
    /\ calls["peer"].at = "AddBlock.remove"
    /\ calls["miner"].at = "mineBlock.latest"
    /\ ~CanStep("peer") /\ ~CanStep("miner") /\ CanStep("submit")


\* The block b with nonce n in its header.
WithNonce(b, n) == [b EXCEPT !.header.nonce = n]

Designated(tx) == IF tx = NoCert THEN "" ELSE tx.inquiry_id

\* C35: for every public key and every (name, surname) of the accepted
\* chain, the lookup through the store and the newest-to-oldest scan of the
\* chain designate the same accepted transaction.
C35_IndexAgreesWithScan ==
    \A p \in ChainTxs :
        LET tx == blocks[p[1]].transactions[p[2]] IN
        /\ Designated(GetCertificationByPublicKey(blocks, db, tx.public_key))
             = Designated(ScanChain(blocks, [by |-> "public_key", public_key |-> tx.public_key]))
        /\ Designated(GetCertificationByIdentity(blocks, db, tx.name, tx.surname))
             = Designated(ScanChain(blocks, [by |-> "identity", name |-> tx.name,
                                            surname |-> tx.surname]))


\* C36: a lookup by identity never returns a certification whose name or
\* surname differs from the pair asked for, names with ':' included.
C36_IdentityMatches ==
    (last.op = "query" /\ last.arg.id # NoCert) =>
        /\ last.arg.id.name = last.arg.q.name
        /\ last.arg.id.surname = last.arg.q.surname


\* C37: two nodes that start from an empty store create genesis blocks with
\* the same hash, so block 1 of one node names the other's genesis block as
\* its predecessor and passes the other's link check.
C37_GenesisDeterministic ==
    last.op = "GenesisBlock" =>
        /\ BlockHash(last.arg.a) = BlockHash(last.arg.b)
        /\ last.arg.block1.header.prev_block_hash = BlockHash(last.arg.b)
        /\ AddBlockChecks(<<last.arg.b>>, powTargetBits, last.arg.block1, now)
             # "invalid previous block hash"


\* C39: last_seen of a peer is refreshed whenever the node has contacted it
\* with success or has heard of it again, so that a peer that keeps
\* answering is not swept; and a discovery round that hears of a peer the
\* sweep has evicted puts it back into the table.
C39_RefreshedOnContact ==
    last.op = "discoverPeers" =>
        /\ \A a \in last.arg.answered :
              a \in DOMAIN peers /\ peers[a].last_seen = last.arg.at
        /\ \A a \in last.arg.heard \ {Self} :
              a \in DOMAIN peers /\ peers[a].last_seen = last.arg.at


\* C40: the health response the node serves passes the validation a
\* participant configured with the same flag applies to it: the path the
\* validator requests is served, the status is one it accepts and the body
\* carries networkFlag equal to the shared flag.
C40_HealthValidates ==
    last.op = "validateNode" =>
        /\ last.arg.response.ok
        /\ last.arg.valid

====
